---- MODULE Spec2Model ----
(***************************************************************************)
(* Model of the tiered temporal store of erigon-lib: AggregatorV3          *)
(* (state/aggregator_v3.go) over its seven components, the background     *)
(* build / merge pipeline, read contexts and the history / inverted index  *)
(* read paths.                                                             *)
(***************************************************************************)
EXTENDS Integers, Sequences, FiniteSets, TLC

VARIABLES
    aggregationStep,        \* AggregatorV3.aggregationStep
    keepInDB,               \* AggregatorV3.keepInDB
    txNum,                  \* AggregatorV3.txNum
    maxTxNum,               \* AggregatorV3.maxTxNum
    db,                     \* MDB rows of every component (Keys/Idx/HistoryVals tables)
    latest,                 \* plain state: latest value of every accounts key
    written,                \* history of the run: every row ever written, per component
    files,                  \* live file set of every component
    closed,                 \* file handles that were closed or deleted
    working,                \* AggregatorV3.working
    workingMerge,           \* AggregatorV3.workingMerge
    workingOptionalIndices, \* AggregatorV3.workingOptionalIndices
    warmupWorking,          \* AggregatorV3.warmupWorking
    wpc,                    \* position of the single writer inside a call
    build,                  \* running build goroutines
    merge,                  \* running merge goroutines
    optIdx,                 \* number of running optional-index goroutines
    warm,                   \* number of running warmup goroutines
    ctxs,                   \* read contexts being made or open
    lastOp,                 \* history of the run: the operation that made the last step
    orphans,                \* files a failed a.buildFiles returned: built, referred to by nothing
    loader,                 \* the last Unwind: its txUnwindTo and the pairs its loader was given
    call,                   \* the last call whose result is kept: function, arguments, result
    commitment,             \* the values of the commitment domain under the key "state", by step
    commTree,               \* DomainCommitted.commTree: the touched keys, one item per hashedKey
    mode,                   \* DomainCommitted.mode
    ctxDone,                \* AggregatorV3.ctx is cancelled
    locality                \* LocalityIndex of logAddrs: the stored keys and their bitmaps

vars == <<aggregationStep, keepInDB, txNum, maxTxNum, db, latest, written, files,
          closed, working, workingMerge, workingOptionalIndices, warmupWorking,
          wpc, build, merge, optIdx, warm, ctxs, lastOp, orphans, loader, call, commitment, commTree, mode,
          ctxDone, locality>>

\* the variables of the aggregator
aggVars == <<aggregationStep, keepInDB, txNum, maxTxNum, db, latest, written, files,
             closed, working, workingMerge, workingOptionalIndices, warmupWorking,
             wpc, build, merge, optIdx, warm, ctxs, lastOp, orphans, loader, ctxDone, locality>>

cfgVars   == <<aggregationStep, keepInDB>>
touchVars == <<commTree, mode>>
domVars   == <<call, commitment, commTree, mode>>
dataVars  == <<db, latest, written>>
guardVars == <<working, workingMerge, workingOptionalIndices, warmupWorking>>

-----------------------------------------------------------------------------
(* Bounds of the model *)

MaxTxNum      == 6   \* where the writer of the pipeline stops
MaxDataTxNum  == 6   \* where the writer of the history stops
MaxScenarioTxNum == 9   \* where the writer of scenario A stops
MaxIdxTxNum   == 5   \* where the writer of the inverted index stops
MaxChanges    == 3   \* accounts changes written
MaxTouches    == 2   \* log address touches written
MaxCtx        == 1   \* read contexts alive at once
MaxGoroutines == 2   \* optional-index goroutines alive at once
MaxLimit      == 2   \* largest row budget given to Prune
MaxUnwindTxNum == 6
MaxLoopTxNum == 8   \* last txNum of the writer that unwinds
ScenarioDTxNum == 13  \* the txNum scenario D advances to

-----------------------------------------------------------------------------
(* Components *)

CompSeq == <<"accounts", "storage", "code", "logAddrs", "logTopics", "tracesFrom", "tracesTo">>
Comps == {CompSeq[i] : i \in 1..Len(CompSeq)}
HistComps == {"accounts", "storage", "code"}

StepsInBiggestFile == 4
WarmupMinLimit == 10000

KeySeq == <<"0xAA", "0xBB">>
Keys == {KeySeq[i] : i \in 1..Len(KeySeq)}
KeyIdx(k) == CHOOSE i \in 1..Len(KeySeq) : KeySeq[i] = k
Nil == "nil"

Min(S) == CHOOSE x \in S : \A y \in S : x <= y
Max(S) == CHOOSE x \in S : \A y \in S : x >= y

RemoveAt(s, j) == SubSeq(s, 1, j - 1) \o SubSeq(s, j + 1, Len(s))

\* ascending sequence of a finite set of integers
RECURSIVE SortAsc(_)
SortAsc(S) == IF S = {} THEN <<>> ELSE LET m == Min(S) IN <<m>> \o SortAsc(S \ {m})

Reverse(s) == [i \in 1..Len(s) |-> s[Len(s) + 1 - i]]

Take(s, n) == IF n < 0 \/ n >= Len(s) THEN s ELSE SubSeq(s, 1, n)

-----------------------------------------------------------------------------
(* Rows and files *)

Row(k, t, v) == [key |-> k, txNum |-> t, prev |-> v]
File(from, to, rows) == [startTxNum |-> from, endTxNum |-> to, rows |-> rows]
NoFiles == [c \in Comps |-> {}]

\* a file handle: the files of one history are an index file and a history file
GroupsOf(c) ==
    CASE c = "accounts" -> {"accountsIdx", "accountsHist"}
      [] c = "storage"  -> {"storageIdx", "storageHist"}
      [] c = "code"     -> {"codeIdx", "codeHist"}
      [] OTHER          -> {c}
Handle(g, f) == <<g, f.startTxNum, f.endTxNum>>
HandlesOf(c, fs) == {Handle(g, f) : g \in GroupsOf(c), f \in fs}

\* InvertedIndex.collate / History.collate: the rows of [txFrom, txTo)
collate(rows, txFrom, txTo) == {r \in rows : txFrom <= r.txNum /\ r.txNum < txTo}

\* the txNum of the writer taken for the last id of the keys table
lastIdIsTxNum(d) == txNum

\* lastIdInDB(db, a.accounts.indexKeysTable)
lastIdInDB(d) ==
    IF d["accounts"] = {} THEN 0 ELSE Max({r.txNum : r \in d["accounts"]})

\* a buildFiles that collates logTopics for the file of logAddrs
buildFilesSwapped(d, step, txFrom, txTo) ==
    [c \in Comps |-> File(txFrom, txTo,
        collate(d[IF c = "logAddrs" THEN "logTopics" ELSE c], txFrom, txTo))]

\* AggregatorV3.buildFiles: collate and build the files of one step, per component
buildFiles(d, step, txFrom, txTo) ==
    [c \in Comps |-> File(txFrom, txTo, collate(d[c], txFrom, txTo))]

\* component.integrateFiles: add the file of the step to the live set
integrateFilesOf(fs, c, f) == [fs EXCEPT ![c] = {g \in @ : ~(g.startTxNum = f.startTxNum /\ g.endTxNum = f.endTxNum)} \cup {f}]

\* component.endTxNumMinimax
endTxNumMinimax(fsc) == IF fsc = {} THEN 0 ELSE Max({f.endTxNum : f \in fsc})

\* AggregatorV3.recalcMaxTxNum
\* maxTxNum taken from the number of step files, which a merge lowers
recalcBySteps(fs) ==
    aggregationStep * Min({Cardinality({f \in fs[c] : f.endTxNum - f.startTxNum = aggregationStep}) : c \in Comps})

recalcMaxTxNum(fs) == Min({endTxNumMinimax(fs[c]) : c \in Comps})

\* recalcMaxTxNum before the seven integrations
recalcFirst == <<"recalcMaxTxNum">> \o CompSeq

\* AggregatorV3.integrateFiles: the seven integrations, then recalcMaxTxNum
integrateOrder == CompSeq \o <<"recalcMaxTxNum">>

-----------------------------------------------------------------------------
(* Merge *)

NoRange == [any |-> FALSE, from |-> 0, to |-> 0]

Pow2(n) == 2 ^ n
Ladder(S, maxSpan) == {S * Pow2(i) : i \in 0..6} \cap 1..maxSpan

InRange(fsc, from, to) == {f \in fsc : from <= f.startTxNum /\ f.endTxNum <= to}

\* two or more files tile [from, to) exactly
Tiled(fsc, from, to) ==
    LET T == InRange(fsc, from, to)
    IN  /\ Cardinality(T) >= 2
        /\ \A t \in from..(to - 1) :
              Cardinality({f \in T : f.startTxNum <= t /\ t < f.endTxNum}) = 1

MergeCandidates(fsc, maxEndTxNum, S, maxSpan) ==
    {w \in {<<f.startTxNum, f.startTxNum + span>> : f \in fsc, span \in Ladder(S, maxSpan)} :
        /\ w[2] <= maxEndTxNum
        /\ w[1] % (w[2] - w[1]) = 0
        /\ Tiled(fsc, w[1], w[2])}

\* component.findMergeRange: oldest window first, smallest span first
findMergeRangeOf(fsc, maxEndTxNum, S, maxSpan) ==
    LET C == MergeCandidates(fsc, maxEndTxNum, S, maxSpan)
    IN  IF C = {} THEN NoRange
        ELSE LET a == Min({w[1] : w \in C})
                 b == Min({w[2] : w \in {x \in C : x[1] = a}})
             IN  [any |-> TRUE, from |-> a, to |-> b]

\* a selection that takes the two youngest adjacent files, wherever they lie
findYoungestPair(fs, maxEndTxNum, S, maxSpan) ==
    [c \in Comps |->
        LET P == {p \in fs[c] \X fs[c] : p[1].endTxNum = p[2].startTxNum /\ p[2].endTxNum <= maxEndTxNum} IN
        IF P = {} THEN NoRange
        ELSE LET p == CHOOSE x \in P : \A y \in P : y[1].startTxNum <= x[1].startTxNum
             IN [any |-> TRUE, from |-> p[1].startTxNum, to |-> p[2].endTxNum]]

\* AggregatorV3.findMergeRange
findMergeRange(fs, maxEndTxNum, S, maxSpan) ==
    [c \in Comps |-> findMergeRangeOf(fs[c], maxEndTxNum, S, maxSpan)]

RangesAny(r) == \E c \in Comps : r[c].any

\* AggregatorV3.staticFilesInRange
staticFilesInRange(fs, r) ==
    [c \in Comps |-> IF r[c].any THEN InRange(fs[c], r[c].from, r[c].to) ELSE {}]

\* component.mergeFiles: one file over the window holding the rows of the inputs
mergeFilesOf(outs, r) == File(r.from, r.to, UNION {f.rows : f \in outs})

\* AggregatorV3.mergeFiles
mergeFiles(outs, r) ==
    [c \in Comps |-> IF r[c].any THEN {mergeFilesOf(outs[c], r[c])} ELSE {}]

\* component.integrateMergedFiles: the merged file in, the inputs out
integrateMergedFilesOf(fsc, outs, in) == IF in = {} THEN fsc ELSE (fsc \ outs) \cup in

\* AggregatorV3.integrateMergedFiles
integrateMergedFiles(fs, outs, in) ==
    [c \in Comps |-> integrateMergedFilesOf(fs[c], outs[c], in[c])]

\* SelectedStaticFilesV3.Close: the groups it walks
SelectedCloseGroups == <<"accountsIdx", "accountsHist", "storageIdx", "accountsHist", "codeIdx",
                         "codeHist", "logAddrs", "logTopics", "tracesFrom", "tracesTo">>
SelectedClose(outs) ==
    {h \in UNION {HandlesOf(c, outs[c]) : c \in Comps} :
        \E i \in 1..Len(SelectedCloseGroups) : SelectedCloseGroups[i] = h[1]}

\* MergedFilesV3.Close
MergedClose(in) == UNION {HandlesOf(c, in[c]) : c \in Comps}

\* component.deleteFiles: the handles no open read context holds are deleted
deleteFilesOf(c, outs, taken) == HandlesOf(c, outs) \ taken

\* AggregatorV3.deleteFiles, failing at component number failAt (0: no failure)
deleteFiles(outs, taken, failAt) ==
    UNION {deleteFilesOf(CompSeq[i], outs[CompSeq[i]], taken) :
             i \in {j \in 1..Len(CompSeq) : failAt = 0 \/ j < failAt}}

-----------------------------------------------------------------------------
(* The writer: SetTxNum, AddAccountPrev and its siblings, AddLogAddr and its siblings *)

Idle == [pc |-> "idle", step |-> 0]

\* AggregatorV3.SetTxNum
SetTxNum(t) ==
    /\ wpc.pc = "idle"
    /\ txNum' = t
    /\ UNCHANGED <<cfgVars, ctxDone, locality, orphans, loader, domVars, maxTxNum, dataVars, files, closed, guardVars, wpc,
                   build, merge, optIdx, warm, ctxs, lastOp>>

\* History.AddPrevValue behind AddAccountPrev / AddStoragePrev / AddCodePrev: the row
\* (key, txNum) -> prev, and the key's posting in the companion index
AddPrevValue(c, k, new) ==
    /\ wpc.pc = "idle"
    /\ ~\E r \in written[c] : r.key = k /\ r.txNum >= txNum
    /\ db' = [db EXCEPT ![c] = @ \cup {Row(k, txNum, latest[c][k])}]
    /\ written' = [written EXCEPT ![c] = @ \cup {Row(k, txNum, latest[c][k])}]
    /\ latest' = [latest EXCEPT ![c][k] = new]
    /\ lastOp' = "write"
    /\ UNCHANGED <<cfgVars, ctxDone, locality, orphans, loader, domVars, txNum, maxTxNum, files, closed, guardVars, wpc,
                   build, merge, optIdx, warm, ctxs>>

\* AggregatorV3.AddAccountPrev
AddAccountPrev(k, new) == AddPrevValue("accounts", k, new)

\* AggregatorV3.AddStoragePrev
AddStoragePrev(k, new) == AddPrevValue("storage", k, new)

\* InvertedIndex.Add behind AddLogAddr / AddLogTopic / AddTraceFrom / AddTraceTo
Add(c, k) ==
    /\ wpc.pc = "idle"
    /\ Row(k, txNum, "") \notin written[c]
    /\ db' = [db EXCEPT ![c] = @ \cup {Row(k, txNum, "")}]
    /\ written' = [written EXCEPT ![c] = @ \cup {Row(k, txNum, "")}]
    /\ lastOp' = "write"
    /\ UNCHANGED <<cfgVars, ctxDone, locality, orphans, loader, domVars, txNum, maxTxNum, latest, files, closed, guardVars, wpc,
                   build, merge, optIdx, warm, ctxs>>

\* AggregatorV3.AddLogAddr
AddLogAddr(k) == Add("logAddrs", k)

\* AggregatorV3.AddCodePrev
AddCodePrev(k, new) == AddPrevValue("code", k, new)

\* AggregatorV3.AddLogTopic, AddTraceFrom, AddTraceTo
AddLogTopic(k) == Add("logTopics", k)
AddTraceFrom(k) == Add("tracesFrom", k)
AddTraceTo(k) == Add("tracesTo", k)

-----------------------------------------------------------------------------
(* BuildFilesInBackground: the writer's part *)

\* the threshold both BuildFiles and BuildFilesInBackground test first
EnoughForBuild == (txNum + 1) > maxTxNum + aggregationStep + keepInDB

\* lines 1028-1032: the threshold, then step := maxTxNum / aggregationStep
BuildFilesInBackgroundCheck ==
    /\ wpc.pc = "idle"
    /\ EnoughForBuild
    /\ wpc' = [pc |-> "bfb", step |-> maxTxNum \div aggregationStep]
    /\ UNCHANGED <<cfgVars, ctxDone, locality, orphans, loader, domVars, txNum, maxTxNum, dataVars, files, closed, guardVars,
                   build, merge, optIdx, warm, ctxs, lastOp>>

\* a guard that never refuses
workingIgnored(w) == TRUE

\* the test of the working guard
workingFree(w) == ~w

NewBuilder(step) == [pc |-> "start", step |-> step, toTxNum |-> (step + 1) * aggregationStep,
                     i |-> 0, sf |-> NoFiles, err |-> FALSE]

\* lines 1033-1041: return if working, else claim working and start the goroutine
BuildFilesInBackgroundStart ==
    /\ wpc.pc = "bfb"
    /\ wpc' = Idle
    /\ IF workingFree(working)
         THEN /\ working' = TRUE
              /\ build' = Append(build, NewBuilder(wpc.step))
         ELSE UNCHANGED <<working, build>>
    /\ UNCHANGED <<cfgVars, ctxDone, locality, orphans, loader, domVars, txNum, maxTxNum, dataVars, files, closed, workingMerge,
                   workingOptionalIndices, warmupWorking, merge, optIdx, warm, ctxs, lastOp>>

-----------------------------------------------------------------------------
(* The build goroutine of BuildFilesInBackground *)

\* a guard that no deferred call releases
guardKept == TRUE

\* what the deferred Store(false) of lines 162, 574, 1042 and 1068 leaves in the guard,
\* however the goroutine ends
guardReleased == FALSE

\* the goroutine returns: defer a.working.Store(false)
BuildExit(j) ==
    /\ build' = RemoveAt(build, j)
    /\ working' = guardReleased

\* lines 1045-1049: hasData
BuildHasData(j) ==
    /\ build[j].pc = "start"
    /\ IF lastIdInDB(db) >= build[j].toTxNum
         THEN /\ build' = [build EXCEPT ![j].pc = "loop"]
              /\ UNCHANGED working
         ELSE BuildExit(j)
    /\ UNCHANGED <<cfgVars, ctxDone, locality, orphans, loader, domVars, txNum, maxTxNum, dataVars, files, closed, workingMerge,
                   workingOptionalIndices, warmupWorking, wpc, merge, optIdx, warm, ctxs, lastOp>>

\* line 1055: the loop condition
BuildLoop(j) ==
    /\ build[j].pc = "loop"
    /\ build' = [build EXCEPT ![j].pc =
                    IF build[j].step < lastIdInDB(db) \div aggregationStep
                      THEN "build" ELSE "mergeCheck"]
    /\ UNCHANGED <<cfgVars, ctxDone, locality, orphans, loader, domVars, txNum, maxTxNum, dataVars, files, closed, guardVars,
                   wpc, merge, optIdx, warm, ctxs, lastOp>>

\* what a.buildFiles has built when it fails at component failAt: the files of the
\* components before it, returned in sf with the error
builtBefore(sf, failAt) ==
    UNION {HandlesOf(CompSeq[i], {sf[CompSeq[i]]}) : i \in 1..(failAt - 1)}

\* the live files if the files a failed a.buildFiles returned were integrated
integratedBefore(fs, sf, failAt) ==
    [c \in Comps |->
        IF \E i \in 1..(failAt - 1) : CompSeq[i] = c
          THEN integrateFilesOf(fs, c, sf[c])[c] ELSE fs[c]]

\* an error check that does not return
errIgnored(before, after) == after

\* lines 460-462, if err != nil { return err }: what follows the call does not run
errReturned(before, after) == before

\* buildFilesInBackground, up to integrateFiles: a.buildFiles succeeds (failAt = 0) or
\* fails at a component, and then line 461 returns before the deferred sf.Close() exists
BuildStep(j, failAt) ==
    /\ build[j].pc = "build"
    /\ LET b == build[j]
           sf == buildFiles(db, b.step, b.step * aggregationStep, (b.step + 1) * aggregationStep)
       IN  IF failAt = 0
             THEN /\ build' = [build EXCEPT ![j] = [b EXCEPT !.pc = "integrate", !.i = 1, !.sf = sf]]
                  /\ UNCHANGED <<orphans, files>>
             ELSE /\ build' = [build EXCEPT ![j] = [b EXCEPT !.pc = "mergeCheck", !.err = TRUE]]
                  /\ orphans' = orphans \cup builtBefore(sf, failAt)
                  /\ files' = errReturned(files, integratedBefore(files, sf, failAt))
    /\ UNCHANGED <<cfgVars, ctxDone, locality, loader, domVars, txNum, maxTxNum, dataVars, closed, guardVars,
                   wpc, merge, optIdx, warm, ctxs, lastOp>>

\* AggregatorV3.integrateFiles, one component (or recalcMaxTxNum) at a time
IntegrateFilesStep(j) ==
    /\ build[j].pc = "integrate"
    /\ LET b == build[j]
           what == integrateOrder[b.i]
       IN  /\ IF what = "recalcMaxTxNum"
                THEN /\ maxTxNum' = recalcMaxTxNum(files)
                     /\ UNCHANGED files
                ELSE /\ files' = integrateFilesOf(files, what, b.sf[what])
                     /\ UNCHANGED maxTxNum
           /\ build' = [build EXCEPT ![j] =
                IF b.i < Len(integrateOrder)
                  THEN [b EXCEPT !.i = b.i + 1]
                  ELSE [b EXCEPT !.pc = "loop", !.i = 0, !.sf = NoFiles, !.step = b.step + 1]]
    /\ UNCHANGED <<cfgVars, ctxDone, locality, orphans, loader, domVars, txNum, dataVars, closed, guardVars,
                   wpc, merge, optIdx, warm, ctxs, lastOp>>

NewMerger == [pc |-> "find", r |-> [c \in Comps |-> NoRange], outs |-> NoFiles,
              in |-> NoFiles, i |-> 0]

\* lines 1063-1067: return if workingMerge, else claim it and start the merge goroutine
BuildStartMerge(j) ==
    /\ build[j].pc = "mergeCheck"
    /\ IF workingMerge
         THEN /\ BuildExit(j)
              /\ UNCHANGED <<workingMerge, merge>>
         ELSE /\ build' = [build EXCEPT ![j].pc = "mergeStore"]
              /\ UNCHANGED <<working, workingMerge, merge>>
    /\ UNCHANGED <<cfgVars, ctxDone, locality, orphans, loader, domVars, txNum, maxTxNum, dataVars, files, closed,
                   workingOptionalIndices, warmupWorking, wpc, optIdx, warm, ctxs, lastOp>>

BuildSpawnMerge(j) ==
    /\ build[j].pc = "mergeStore"
    /\ workingMerge' = TRUE
    /\ merge' = Append(merge, NewMerger)
    /\ BuildExit(j)
    /\ UNCHANGED <<cfgVars, ctxDone, locality, orphans, loader, domVars, txNum, maxTxNum, dataVars, files, closed,
                   workingOptionalIndices, warmupWorking, wpc, optIdx, warm, ctxs, lastOp>>

-----------------------------------------------------------------------------
(* The merge goroutine: MergeLoop, then BuildOptionalMissedIndices *)

MaxSpan == aggregationStep * StepsInBiggestFile

\* the file handles the open read contexts hold
Taken == UNION {HandlesOf(c, ctxs[j].files[c]) : c \in Comps, j \in 1..Len(ctxs)}

\* mergeLoopStep, lines 476-483: findMergeRange and staticFilesInRange
MergeFind(j) ==
    /\ merge[j].pc = "find"
    /\ \E r \in {findMergeRange(files, maxTxNum, aggregationStep, MaxSpan)} :
          merge' = [merge EXCEPT ![j] =
                IF RangesAny(r)
                  THEN [@ EXCEPT !.pc = "merge", !.r = r, !.outs = staticFilesInRange(files, r)]
                  ELSE [@ EXCEPT !.pc = "opt"]]
    /\ UNCHANGED <<cfgVars, ctxDone, locality, orphans, loader, domVars, txNum, maxTxNum, dataVars, files, closed, guardVars,
                   wpc, build, optIdx, warm, ctxs, lastOp>>

\* what mergeLoopStep closes when it returns: nothing once closeAll is false
closeOnReturn(closeAll, outs, in) ==
    IF closeAll THEN SelectedClose(outs) \cup MergedClose(in) ELSE {}

\* mergeLoopStep, lines 489-497: a.mergeFiles succeeds, or fails and the deferred
\* outs.Close() runs while MergeLoop returns the error
MergeFiles(j, ok) ==
    /\ merge[j].pc = "merge"
    /\ LET m == merge[j]
       IN  IF ok
             THEN /\ merge' = [merge EXCEPT ![j] =
                        [m EXCEPT !.pc = "integrate", !.i = 1, !.in = mergeFiles(m.outs, m.r)]]
                  /\ UNCHANGED closed
             ELSE /\ merge' = [merge EXCEPT ![j] = [m EXCEPT !.pc = "opt"]]
                  /\ closed' = closed \cup closeOnReturn(TRUE, m.outs, NoFiles)
    /\ UNCHANGED <<cfgVars, ctxDone, locality, orphans, loader, domVars, txNum, maxTxNum, dataVars, files, guardVars,
                   wpc, build, optIdx, warm, ctxs, lastOp>>

\* AggregatorV3.integrateMergedFiles, one component at a time
IntegrateMergedStep(j) ==
    /\ merge[j].pc = "integrate"
    /\ LET m == merge[j]
           c == CompSeq[m.i]
       IN  /\ files' = [files EXCEPT ![c] = integrateMergedFilesOf(@, m.outs[c], m.in[c])]
           /\ merge' = [merge EXCEPT ![j] =
                IF m.i < Len(CompSeq) THEN [m EXCEPT !.i = m.i + 1]
                                      ELSE [m EXCEPT !.pc = "delete", !.i = 0]]
    /\ UNCHANGED <<cfgVars, ctxDone, locality, orphans, loader, domVars, txNum, maxTxNum, dataVars, closed, guardVars,
                   wpc, build, optIdx, warm, ctxs, lastOp>>

\* mergeLoopStep, lines 499-503: a.deleteFiles succeeds (closeAll = false), or fails at
\* component number failAt and the deferred outs.Close() and in.Close() run
MergeDelete(j, failAt) ==
    /\ merge[j].pc = "delete"
    /\ LET m == merge[j]
       IN  /\ closed' = closed \cup deleteFiles(m.outs, Taken, failAt)
                               \cup closeOnReturn(failAt # 0, m.outs, m.in)
           /\ merge' = [merge EXCEPT ![j] =
                [NewMerger EXCEPT !.pc = IF failAt = 0 THEN "find" ELSE "opt"]]
    /\ UNCHANGED <<cfgVars, ctxDone, locality, orphans, loader, domVars, txNum, maxTxNum, dataVars, files, guardVars,
                   wpc, build, optIdx, warm, ctxs, lastOp>>

\* the merge goroutine returns: defer a.workingMerge.Store(false)
MergeExit(j) ==
    /\ merge' = RemoveAt(merge, j)
    /\ workingMerge' = guardReleased

\* BuildOptionalMissedIndices called at the end of the merge goroutine, lines 157-159
MergeOptLoad(j) ==
    /\ merge[j].pc = "opt"
    /\ IF workingOptionalIndices
         THEN MergeExit(j)
         ELSE /\ merge' = [merge EXCEPT ![j].pc = "optStore"]
              /\ UNCHANGED workingMerge
    /\ UNCHANGED <<cfgVars, ctxDone, locality, orphans, loader, domVars, txNum, maxTxNum, dataVars, files, closed, working,
                   workingOptionalIndices, warmupWorking, wpc, build, optIdx, warm, ctxs, lastOp>>

\* lines 160-161: claim workingOptionalIndices and start the goroutine
MergeOptStore(j) ==
    /\ merge[j].pc = "optStore"
    /\ optIdx < MaxGoroutines
    /\ workingOptionalIndices' = TRUE
    /\ optIdx' = optIdx + 1
    /\ MergeExit(j)
    /\ UNCHANGED <<cfgVars, ctxDone, locality, orphans, loader, domVars, txNum, maxTxNum, dataVars, files, closed, working,
                   warmupWorking, wpc, build, warm, ctxs, lastOp>>

\* the optional-index goroutine ends: defer a.workingOptionalIndices.Store(false)
OptIdxDone ==
    /\ optIdx > 0
    /\ optIdx' = optIdx - 1
    /\ workingOptionalIndices' = guardReleased
    /\ UNCHANGED <<cfgVars, ctxDone, locality, orphans, loader, domVars, txNum, maxTxNum, dataVars, files, closed, working,
                   workingMerge, warmupWorking, wpc, build, merge, warm, ctxs, lastOp>>

-----------------------------------------------------------------------------
(* BuildOptionalMissedIndices and Warmup called by the writer *)

\* BuildOptionalMissedIndices, lines 157-159
OptLoad ==
    /\ wpc.pc = "idle"
    /\ ~workingOptionalIndices
    /\ wpc' = [pc |-> "optStore", step |-> 0]
    /\ UNCHANGED <<cfgVars, ctxDone, locality, orphans, loader, domVars, txNum, maxTxNum, dataVars, files, closed, guardVars,
                   build, merge, optIdx, warm, ctxs, lastOp>>

\* BuildOptionalMissedIndices, lines 160-161
OptStore ==
    /\ wpc.pc = "optStore"
    /\ optIdx < MaxGoroutines
    /\ workingOptionalIndices' = TRUE
    /\ optIdx' = optIdx + 1
    /\ wpc' = Idle
    /\ UNCHANGED <<cfgVars, ctxDone, locality, orphans, loader, domVars, txNum, maxTxNum, dataVars, files, closed, working,
                   workingMerge, warmupWorking, build, merge, warm, ctxs, lastOp>>

\* Warmup, lines 563-573: a limit below 10000 returns at once
Warmup(limit) ==
    /\ wpc.pc = "idle"
    /\ limit >= WarmupMinLimit
    /\ ~warmupWorking
    /\ warmupWorking' = TRUE
    /\ warm' = warm + 1
    /\ UNCHANGED <<cfgVars, ctxDone, locality, orphans, loader, domVars, txNum, maxTxNum, dataVars, files, closed, working,
                   workingMerge, workingOptionalIndices, wpc, build, merge, optIdx, ctxs, lastOp>>

\* the warmup goroutine ends: defer a.warmupWorking.Store(false)
WarmupDone ==
    /\ warm > 0
    /\ warm' = warm - 1
    /\ warmupWorking' = guardReleased
    /\ UNCHANGED <<cfgVars, ctxDone, locality, orphans, loader, domVars, txNum, maxTxNum, dataVars, files, closed, working,
                   workingMerge, workingOptionalIndices, wpc, build, merge, optIdx, ctxs, lastOp>>

-----------------------------------------------------------------------------
(* Read contexts *)

NewCtx == [i |-> 0, files |-> NoFiles]

\* a reader calls MakeContext
MakeContextBegin ==
    /\ Len(ctxs) < MaxCtx
    /\ ctxs' = Append(ctxs, NewCtx)
    /\ UNCHANGED <<cfgVars, ctxDone, locality, orphans, loader, domVars, txNum, maxTxNum, dataVars, files, closed, guardVars,
                   wpc, build, merge, optIdx, warm, lastOp>>

\* AggregatorV3.MakeContext, lines 1296-1302: the next component's MakeContext takes
\* that component's current file list
MakeContextStep(j) ==
    /\ ctxs[j].i < Len(CompSeq)
    /\ LET c == CompSeq[ctxs[j].i + 1]
       IN  ctxs' = [ctxs EXCEPT ![j] = [i |-> @.i + 1, files |-> [@.files EXCEPT ![c] = files[c]]]]
    /\ UNCHANGED <<cfgVars, ctxDone, locality, orphans, loader, domVars, txNum, maxTxNum, dataVars, files, closed, guardVars,
                   wpc, build, merge, optIdx, warm, lastOp>>

\* AggregatorV3Context.Close: releases nothing; the reader drops the context
CtxClose(j) ==
    /\ ctxs[j].i = Len(CompSeq)
    /\ ctxs' = RemoveAt(ctxs, j)
    /\ UNCHANGED <<cfgVars, ctxDone, locality, orphans, loader, domVars, txNum, maxTxNum, dataVars, files, closed, guardVars,
                   wpc, build, merge, optIdx, warm, lastOp>>

-----------------------------------------------------------------------------
(* Reads *)

NotFound == [v |-> Nil, ok |-> FALSE]
Found(v) == [v |-> v, ok |-> TRUE]
Fault == [v |-> "fault", ok |-> FALSE]

\* a read through a closed handle of a live file faults
Closed(c, fsc) == HandlesOf(c, fsc) \cap closed # {}

\* the files in the order of the components' file trees: by endTxNum
RECURSIVE FilesAsc(_)
FilesAsc(fsc) ==
    IF fsc = {} THEN <<>>
    ELSE LET f == CHOOSE x \in fsc : \A y \in fsc :
                     \/ x.endTxNum < y.endTxNum
                     \/ x.endTxNum = y.endTxNum /\ x.startTxNum >= y.startTxNum
         IN  <<f>> \o FilesAsc(fsc \ {f})

\* the key's postings at or after ts in a set of rows
PostingsFrom(rows, k, ts) == {r.txNum : r \in {x \in rows : x.key = k /\ x.txNum >= ts}}
PrevAt(rows, k, t) == (CHOOSE r \in rows : r.key = k /\ r.txNum = t).prev

\* HistoryContext.GetNoState behind ReadAccountDataNoState: it is given no transaction
\* and searches the files, oldest first, for the first change of the key at or after ts
getNoStateIn(fseq, k, ts) ==
    LET hits == {i \in 1..Len(fseq) :
                    fseq[i].endTxNum > ts /\ PostingsFrom(fseq[i].rows, k, ts) # {}}
    IN  IF hits = {} THEN NotFound
        ELSE Found(PrevAt(fseq[Min(hits)].rows, k,
                          Min(PostingsFrom(fseq[Min(hits)].rows, k, ts))))

GetNoState(fsc, k, ts) ==
    CHOOSE r \in {getNoStateIn(fseq, k, ts) : fseq \in {FilesAsc(fsc)}} : TRUE

\* the recent history in MDB
getNoStateFromDB(rows, k, ts) ==
    LET P == PostingsFrom(rows, k, ts)
    IN  IF P = {} THEN NotFound ELSE Found(PrevAt(rows, k, Min(P)))

\* HistoryContext.GetNoStateWithRecent behind ReadAccountDataNoStateWithRecent
GetNoStateWithRecent(fsc, rows, k, ts) ==
    LET r == GetNoState(fsc, k, ts)
    IN  IF r.ok THEN r ELSE getNoStateFromDB(rows, k, ts)

\* AggregatorV3Context.ReadAccountDataNoState on a context made now
ReadAccountDataNoState(k, ts) ==
    IF Closed("accounts", files["accounts"]) THEN Fault
    ELSE GetNoState(files["accounts"], k, ts)

\* a read of the storage history in place of the accounts history
readStorageWithRecent(k, ts) ==
    IF Closed("storage", files["storage"]) THEN Fault
    ELSE GetNoStateWithRecent(files["storage"], db["storage"], k, ts)

\* AggregatorV3Context.ReadAccountDataNoStateWithRecent on a context made now
ReadAccountDataNoStateWithRecent(k, ts) ==
    IF Closed("accounts", files["accounts"]) THEN Fault
    ELSE GetNoStateWithRecent(files["accounts"], db["accounts"], k, ts)

InWindow(t, lo, hi) == (lo < 0 \/ lo <= t) /\ (hi < 0 \/ t < hi)

\* the file's [startTxNum, endTxNum) overlaps the window
Overlaps(f, lo, hi) == (hi < 0 \/ f.startTxNum < hi) /\ (lo < 0 \/ lo < f.endTxNum)

\* the key's postings in the window in a set of rows
PostingsIn(rows, k, lo, hi) ==
    {r.txNum : r \in {x \in rows : x.key = k /\ InWindow(x.txNum, lo, hi)}}

RECURSIVE postingsOfFiles(_, _, _, _, _)
postingsOfFiles(fseq, i, k, lo, hi) ==
    IF i > Len(fseq) THEN <<>>
    ELSE IF Overlaps(fseq[i], lo, hi)
           THEN SortAsc(PostingsIn(fseq[i].rows, k, lo, hi))
                    \o postingsOfFiles(fseq, i + 1, k, lo, hi)
           ELSE postingsOfFiles(fseq, i + 1, k, lo, hi)

SeqRange(s) == {s[i] : i \in 1..Len(s)}

\* the MDB rows of the window that the files did not give
postingsOfDB(rows, k, lo, hi, inFiles) ==
    SortAsc(PostingsIn(rows, k, lo, hi) \ SeqRange(inFiles))

\* a descending scan that takes [toTs, fromTs)
windowAsStated(fromTs, toTs, asc) == IF asc THEN <<fromTs, toTs>> ELSE <<toTs, fromTs>>

\* TemporalTx.IndexRange, the declaration's comment: a scan takes [from, to) in its own
\* direction, so a descending scan starts at fromTs and stops before toTs; -1 is no bound.
\* The window as the txNums lo <= t < hi
scanWindow(fromTs, toTs, asc) ==
    IF asc THEN <<fromTs, toTs>>
           ELSE <<IF toTs < 0 THEN -1 ELSE toTs + 1, IF fromTs < 0 THEN -1 ELSE fromTs + 1>>

\* InvertedIndexContext.IterateRange: the postings of every file that overlaps the
\* window, then the MDB rows the files did not give
IterateRange(fsc, rows, k, fromTs, toTs, asc, limit) ==
    LET lo == scanWindow(fromTs, toTs, asc)[1]
        hi == scanWindow(fromTs, toTs, asc)[2]
    IN  CHOOSE out \in
            {Take(IF asc THEN all ELSE Reverse(all), limit) :
                all \in {inFiles \o postingsOfDB(rows, k, lo, hi, inFiles) :
                            inFiles \in {postingsOfFiles(fseq, 1, k, lo, hi) :
                                            fseq \in {FilesAsc(fsc)}}}} : TRUE

\* AggregatorV3Context.LogAddrIterator on a context made now
LogAddrIterator(k, fromTs, toTs, asc, limit) ==
    IF Closed("logAddrs", files["logAddrs"]) THEN <<"fault">>
    ELSE IterateRange(files["logAddrs"], db["logAddrs"], k, fromTs, toTs, asc, limit)

\* HistoryContext.IterateChanged behind AccountHistoryIterateChanged: every key changed
\* in [startTxNum, endTxNum) with the value it had before its first change there
IterateChanged(fsc, rows, startTxNum, endTxNum) ==
    LET all == rows \cup UNION {f.rows : f \in fsc}
        W(k) == {t \in PostingsFrom(all, k, startTxNum) : t < endTxNum}
    IN  {<<k, PrevAt(all, k, Min(W(k)))>> : k \in {x \in Keys : W(x) # {}}}

AccountHistoryIterateChanged(startTxNum, endTxNum) ==
    IF Closed("accounts", files["accounts"]) THEN {<<"fault", "fault">>}
    ELSE IterateChanged(files["accounts"], db["accounts"], startTxNum, endTxNum)

-----------------------------------------------------------------------------
(* BuildFiles, MergeLoop and Prune called by the writer itself *)

\* buildFilesInBackground: buildFiles, then integrateFiles
buildFilesInBackground(fs, d, step, S) ==
    LET sf == buildFiles(d, step, step * S, (step + 1) * S)
        RECURSIVE integ(_, _)
        integ(f, i) == IF i > Len(CompSeq) THEN f
                       ELSE integ(integrateFilesOf(f, CompSeq[i], sf[CompSeq[i]]), i + 1)
    IN  integ(fs, 1)

\* the loop of BuildFiles, lines 445-453
RECURSIVE buildLoop(_, _, _, _)
buildLoop(fs, d, step, S) ==
    IF step < lastIdInDB(d) \div S
      THEN buildLoop(buildFilesInBackground(fs, d, step, S), d, step + 1, S)
      ELSE fs

\* AggregatorV3.BuildFiles
BuildFiles ==
    /\ wpc.pc = "idle"
    /\ EnoughForBuild
    /\ recalcMaxTxNum(files) \div aggregationStep < lastIdInDB(db) \div aggregationStep
    /\ files' = buildLoop(files, db, recalcMaxTxNum(files) \div aggregationStep, aggregationStep)
    /\ maxTxNum' = recalcMaxTxNum(files')
    /\ lastOp' = "build"
    /\ UNCHANGED <<cfgVars, ctxDone, locality, orphans, loader, domVars, txNum, dataVars, closed, guardVars, wpc, build, merge,
                   optIdx, warm, ctxs>>

\* AggregatorV3.mergeLoopStep, run by MergeLoop on the caller's thread
mergeLoopStep(ok) ==
    /\ wpc.pc = "idle"
    /\ \E r \in {findMergeRange(files, maxTxNum, aggregationStep, MaxSpan)} :
       \E outs \in {staticFilesInRange(files, r)} :
       \E in \in {mergeFiles(outs, r)} :
          /\ RangesAny(r)
          /\ IF ok
               THEN /\ files' = integrateMergedFiles(files, outs, in)
                    /\ closed' = closed \cup deleteFiles(outs, Taken, 0)
                                        \cup closeOnReturn(FALSE, outs, in)
                    /\ lastOp' = "merge"
               ELSE /\ closed' = closed \cup closeOnReturn(TRUE, outs, NoFiles)
                    /\ lastOp' = "mergeError"
                    /\ UNCHANGED files
    /\ UNCHANGED <<cfgVars, ctxDone, locality, orphans, loader, domVars, txNum, maxTxNum, dataVars, guardVars, wpc, build, merge,
                   optIdx, warm, ctxs>>

\* the order of the rows in the Keys table: by txNum, then by key
RowLess(r1, r2) ==
    \/ r1.txNum < r2.txNum
    \/ r1.txNum = r2.txNum /\ KeyIdx(r1.key) < KeyIdx(r2.key)

\* component.prune: delete up to limit rows of [txFrom, txTo), in table order
pruneOf(rows, txFrom, txTo, limit) ==
    LET R == collate(rows, txFrom, txTo)
    IN  rows \ {r \in R : Cardinality({x \in R : RowLess(x, r)}) < limit}

\* a Prune that does not stop at the files
pruneToTxNum == txNum + 1

\* a Prune that goes one step beyond the files
pruneToNextStep == maxTxNum + aggregationStep

\* where AggregatorV3.Prune stops: a.maxTxNum.Load()
pruneTo == maxTxNum

\* AggregatorV3.Prune: prune(0, maxTxNum, limit) on every component
Prune(limit) ==
    /\ wpc.pc = "idle"
    /\ db' = [c \in Comps |-> pruneOf(db[c], 0, pruneTo, limit)]
    /\ db' # db
    /\ lastOp' = "prune"
    /\ UNCHANGED <<cfgVars, ctxDone, locality, orphans, loader, domVars, txNum, maxTxNum, latest, written, files, closed, guardVars,
                   wpc, build, merge, optIdx, warm, ctxs>>

\* Prune beside the background goroutines, line 688: txTo := a.maxTxNum.Load()
PruneLoad ==
    /\ wpc.pc = "idle"
    /\ wpc' = [pc |-> "prune", step |-> pruneTo]
    /\ UNCHANGED <<cfgVars, ctxDone, locality, orphans, loader, domVars, txNum, maxTxNum, dataVars, files, closed, guardVars,
                   build, merge, optIdx, warm, ctxs, lastOp>>

\* lines 691-716: a.prune(ctx, 0, txTo, limit) with the txTo loaded before
PruneRun(limit) ==
    /\ wpc.pc = "prune"
    /\ wpc' = Idle
    /\ db' = [c \in Comps |-> pruneOf(db[c], 0, wpc.step, limit)]
    /\ lastOp' = "prune"
    /\ UNCHANGED <<cfgVars, ctxDone, locality, orphans, loader, domVars, txNum, maxTxNum, latest, written, files, closed, guardVars,
                   build, merge, optIdx, warm, ctxs>>

-----------------------------------------------------------------------------
(* Unwind *)

NoUnwind == [to |-> 0, pairs |-> {}]

\* the key of kv.PlainState: the address, and for storage the address and the location
PlainKey(c, k) == IF c = "storage" THEN <<k, "loc">> ELSE <<k>>

\* the rows History.pruneF(txFrom, MaxUint64, f) hands to f, in the order of the table
RECURSIVE RowsInOrder(_)
RowsInOrder(rows) ==
    IF rows = {} THEN <<>>
    ELSE LET r == CHOOSE x \in rows : \A y \in rows \ {x} : RowLess(x, y)
         IN  <<r>> \o RowsInOrder(rows \ {r})

\* stateChanges.Collect on an etl.NewOldestEntryBuffer: the first value of a key stays
Collect(buf, k, v) ==
    IF \E e \in buf : e[1] = k THEN buf ELSE buf \cup {<<k, v>>}

RECURSIVE CollectAll(_, _, _, _)
CollectAll(buf, c, rowSeq, i) ==
    IF i > Len(rowSeq) THEN buf
    ELSE CollectAll(Collect(buf, PlainKey(c, rowSeq[i].key), rowSeq[i].prev), c, rowSeq, i + 1)

\* a pruneF that streams the table from its start
stateChangesFromStart(txUnwindTo) == 0

\* lines 531 and 536: pruneF(txUnwindTo, MaxUint64, ...) streams the rows of txUnwindTo and later
stateChangesFrom(txUnwindTo) == txUnwindTo

\* the rows of [txFrom, MaxUint64)
RowsFrom(rows, txFrom) == {r \in rows : r.txNum >= txFrom}

\* lines 529-541: the pairs collected from accounts, then from storage
stateChanges(d, txUnwindTo) ==
    CollectAll(CollectAll({}, "accounts",
                          RowsInOrder(RowsFrom(d["accounts"], stateChangesFrom(txUnwindTo))), 1),
               "storage", RowsInOrder(RowsFrom(d["storage"], stateChangesFrom(txUnwindTo))), 1)

\* stateLoad of the caller: put the pair into the plain state
stateLoad(plain, pairs) ==
    [c \in HistComps |-> [k \in Keys |->
        IF c # "code" /\ \E e \in pairs : e[1] = PlainKey(c, k)
          THEN (CHOOSE e \in pairs : e[1] = PlainKey(c, k))[2]
          ELSE plain[c][k]]]

\* an Unwind that leaves the inverted indices alone
unwoundHistories(rows, c, txUnwindTo) ==
    IF c \in {"accounts", "storage"} THEN rows \ {r \in rows : r.txNum >= txUnwindTo} ELSE rows

\* what Unwind takes out of a table: accounts and storage by pruneF, the four inverted
\* indices by prune(txUnwindTo, MaxUint64, MaxUint64); the history of code stays
unwound(rows, c, txUnwindTo) ==
    IF c = "code" THEN rows ELSE rows \ RowsFrom(rows, txUnwindTo)

\* AggregatorV3.Unwind
Unwind(txUnwindTo) ==
    /\ wpc.pc = "idle"
    /\ \E pairs \in {stateChanges(db, txUnwindTo)} :
          /\ loader' = [to |-> txUnwindTo, pairs |-> pairs]
          /\ latest' = stateLoad(latest, pairs)
    /\ db' = [c \in Comps |-> unwound(db[c], c, txUnwindTo)]
    /\ written' = [c \in Comps |-> unwound(written[c], c, txUnwindTo)]
    /\ lastOp' = "unwind"
    /\ UNCHANGED <<cfgVars, ctxDone, locality, orphans, domVars, txNum, maxTxNum, files, closed, guardVars,
                   wpc, build, merge, optIdx, warm, ctxs>>

-----------------------------------------------------------------------------
(* The background pipeline with its writer and readers *)

\* no call into domain_committed.go
NoCall == [fn |-> "none"]

\* a LocalityIndex with no file built
NoLocality == [keys |-> <<>>, bm |-> <<>>]

InitCommon ==
    /\ ctxDone = FALSE
    /\ locality = NoLocality
    /\ call = NoCall
    /\ commitment = {}
    /\ commTree = {}
    /\ mode = "CommitmentModeDirect"
    /\ txNum = 0
    /\ maxTxNum = recalcMaxTxNum(NoFiles)
    /\ db = [c \in Comps |-> {}]
    /\ latest = [c \in HistComps |-> [k \in Keys |-> Nil]]
    /\ written = [c \in Comps |-> {}]
    /\ files = NoFiles
    /\ closed = {}
    /\ orphans = {}
    /\ loader = NoUnwind
    /\ working = FALSE
    /\ workingMerge = FALSE
    /\ workingOptionalIndices = FALSE
    /\ warmupWorking = FALSE
    /\ wpc = Idle
    /\ build = <<>>
    /\ merge = <<>>
    /\ optIdx = 0
    /\ warm = 0
    /\ ctxs = <<>>
    /\ lastOp = "init"

\* NewAggregatorV3 with aggregationStep 2, then ReopenFiles on an empty directory
Init ==
    /\ aggregationStep = 2
    /\ keepInDB = 2 * aggregationStep
    /\ InitCommon

\* the same, then KeepInDB(0)
InitKeepNothing ==
    /\ aggregationStep = 2
    /\ keepInDB = 0
    /\ InitCommon

\* the n-th change of a component writes the value vn
NextVal(c) == CASE Cardinality(written[c]) = 0 -> "v1"
                [] Cardinality(written[c]) = 1 -> "v2"
                [] OTHER -> "v3"

\* a transaction of the pipeline's writer: it changes the sender's account, and the
\* next transaction is aggregationStep later
Transactions ==
    \/ /\ lastIdInDB(db) = txNum
       /\ txNum + aggregationStep <= MaxTxNum
       /\ SetTxNum(txNum + aggregationStep)
    \/ /\ lastIdInDB(db) < txNum
       /\ AddAccountPrev(KeySeq[1], "v1")

\* the writer calls BuildFilesInBackground whenever it likes
PipeWriter ==
    \/ Transactions
    \/ BuildFilesInBackgroundCheck
    \/ BuildFilesInBackgroundStart

\* the writer calls BuildFilesInBackground when the pipeline is at rest
QuietWriter ==
    \/ Transactions
    \/ /\ build = <<>> /\ merge = <<>>
       /\ BuildFilesInBackgroundCheck
    \/ BuildFilesInBackgroundStart

\* where a.buildFiles and a.deleteFiles may fail: nowhere, or at this component
FailPoints == {0, 4}

\* a.buildFiles(a.ctx, ...), line 1056: once a.ctx is cancelled its first db.View(ctx)
\* fails, before any file is built
BuildFailPoints == IF ctxDone THEN {1} ELSE FailPoints

\* a.MergeLoop(a.ctx, 1), line 1069: once a.ctx is cancelled a.mergeFiles(ctx, ...) fails
MergeOutcomes == IF ctxDone THEN {FALSE} ELSE BOOLEAN

\* the steps of build goroutine number j
BuildGoroutine(j) ==
    \/ BuildHasData(j)
    \/ BuildLoop(j)
    \/ \E failAt \in BuildFailPoints : BuildStep(j, failAt)
    \/ IntegrateFilesStep(j)
    \/ BuildStartMerge(j)
    \/ BuildSpawnMerge(j)

\* the steps of merge goroutine number j
MergeGoroutine(j) ==
    \/ MergeFind(j)
    \/ \E ok \in MergeOutcomes : MergeFiles(j, ok)
    \/ IntegrateMergedStep(j)
    \/ \E failAt \in FailPoints : MergeDelete(j, failAt)
    \/ MergeOptLoad(j)
    \/ MergeOptStore(j)

Background ==
    \/ \E j \in 1..Len(build) : BuildGoroutine(j)
    \/ \E j \in 1..Len(merge) : MergeGoroutine(j)
    \/ OptIdxDone

Readers ==
    \/ MakeContextBegin
    \/ \E j \in 1..Len(ctxs) : MakeContextStep(j) \/ CtxClose(j)

Next == PipeWriter \/ Background

Spec == Init /\ [][Next]_vars

-----------------------------------------------------------------------------
(* The pipeline with a writer that also calls BuildOptionalMissedIndices and Warmup *)

GuardsWriter ==
    \/ QuietWriter
    \/ OptLoad
    \/ OptStore
    \/ \E limit \in {WarmupMinLimit - 1, WarmupMinLimit} : Warmup(limit)

NextGuards == GuardsWriter \/ Background \/ WarmupDone

SpecGuards == Init /\ [][NextGuards]_vars

\* the Go scheduler runs every goroutine that can run: no goroutine of the four kinds
\* waits for ever. The merge goroutine's go statement of line 161 waits in the model
\* while MaxGoroutines optional-index goroutines run, and is taken once one has ended
GoroutinesRun ==
    /\ WF_vars(\E j \in 1..Len(build) : BuildGoroutine(j))
    /\ SF_vars(\E j \in 1..Len(merge) : MergeGoroutine(j))
    /\ WF_vars(OptIdxDone)
    /\ WF_vars(WarmupDone)

SpecGuardsFair == SpecGuards /\ GoroutinesRun

-----------------------------------------------------------------------------
(* The pipeline with a writer that closes the aggregator *)

\* AggregatorV3.closeFiles, lines 132-154: every component closes its files
closeFiles(fs) == UNION {HandlesOf(c, fs[c]) : c \in Comps}

\* AggregatorV3.Close, lines 106-109: a.ctxCancel() and a.closeFiles(); it waits for no
\* goroutine
Close ==
    /\ wpc.pc = "idle"
    /\ ctxDone' = TRUE
    /\ closed' = closed \cup closeFiles(files)
    /\ lastOp' = "Close"
    /\ UNCHANGED <<cfgVars, locality, orphans, loader, domVars, txNum, maxTxNum, dataVars, files, guardVars,
                   wpc, build, merge, optIdx, warm, ctxs>>

\* the writer works until it closes the aggregator, and may close it again
CloseWriter ==
    \/ /\ ~ctxDone
       /\ QuietWriter
    \/ /\ ~ctxDone
       /\ Warmup(WarmupMinLimit)
    \/ Close

NextClose == CloseWriter \/ Background \/ WarmupDone

SpecClose == Init /\ [][NextClose]_vars

-----------------------------------------------------------------------------
(* The pipeline with a writer that also prunes *)

PruneWriter ==
    \/ QuietWriter
    \/ PruneLoad
    \/ \E limit \in 1..MaxLimit : PruneRun(limit)

NextPrune == PruneWriter \/ Background

SpecPrune == Init /\ [][NextPrune]_vars

\* the same after KeepInDB(0): every step is built as soon as it is whole, and builds
\* follow merges
SpecPruneEarly == InitKeepNothing /\ [][NextPrune]_vars

-----------------------------------------------------------------------------
(* MakeSteps called by the writer beside the background goroutines *)

\* the files of a component in the order of its btree: by endTxNum, then by startTxNum
RECURSIVE FilesInOrder(_)
FilesInOrder(fsc) ==
    IF fsc = {} THEN <<>>
    ELSE LET f == CHOOSE f \in fsc : \A g \in fsc :
                      \/ f.endTxNum < g.endTxNum
                      \/ f.endTxNum = g.endTxNum /\ f.startTxNum <= g.startTxNum
         IN  <<[startTxNum |-> f.startTxNum, endTxNum |-> f.endTxNum]>> \o FilesInOrder(fsc \ {f})

\* History.MakeSteps(toTxNum): one HistoryStep per indexed file that starts below toTxNum
HistoryMakeSteps(fsc, toTxNum) == FilesInOrder({f \in fsc : f.startTxNum < toTxNum})

\* line 1359: len(accountSteps) != len(storageSteps) || len(storageSteps) != len(codeSteps)
countsDiffer(n1, n2, n3) == n1 # n2 \/ n2 # n3

\* MakeSteps, lines 1347-1355: where the steps end
stepsTo(fs, mx) ==
    LET indexedMax == Min({endTxNumMinimax(fs[c]) : c \in HistComps})
    IN  IF mx # indexedMax THEN Min({mx, indexedMax}) ELSE mx

\* MakeSteps, lines 1359-1371: the error with the three counts, or the steps
combineSteps(accountSteps, storageSteps, codeSteps) ==
    LET counts == <<Len(accountSteps), Len(storageSteps), Len(codeSteps)>>
    IN  IF countsDiffer(counts[1], counts[2], counts[3])
          THEN [fn |-> "MakeSteps", err |-> TRUE, counts |-> counts, steps |-> <<>>]
          ELSE [fn |-> "MakeSteps", err |-> FALSE, counts |-> counts,
                steps |-> [i \in 1..Len(accountSteps) |->
                              [accounts |-> accountSteps[i], storage |-> storageSteps[i],
                               code |-> codeSteps[i]]]]

\* AggregatorV3.MakeSteps, lines 1347-1355
MakeStepsTo ==
    /\ wpc.pc = "idle"
    /\ wpc' = [pc |-> "accountSteps", step |-> stepsTo(files, maxTxNum)]
    /\ UNCHANGED <<cfgVars, ctxDone, locality, orphans, loader, domVars, txNum, maxTxNum, dataVars, files, closed, guardVars,
                   build, merge, optIdx, warm, ctxs, lastOp>>

\* lines 1356-1358: a.accounts.MakeSteps(to), a.code.MakeSteps(to), a.storage.MakeSteps(to),
\* each reading the files of its component when it is called
MakeStepsOf(c, pc, next) ==
    /\ wpc.pc = pc
    /\ wpc' = [wpc EXCEPT !.pc = next] @@ (c :> HistoryMakeSteps(files[c], wpc.step))
    /\ UNCHANGED <<cfgVars, ctxDone, locality, orphans, loader, domVars, txNum, maxTxNum, dataVars, files, closed, guardVars,
                   build, merge, optIdx, warm, ctxs, lastOp>>

\* lines 1359-1375: MakeSteps returns
MakeStepsReturn ==
    /\ wpc.pc = "return"
    /\ call' = combineSteps(wpc.accounts, wpc.storage, wpc.code)
    /\ wpc' = Idle
    /\ UNCHANGED <<cfgVars, ctxDone, locality, orphans, loader, commitment, touchVars, txNum, maxTxNum, dataVars,
                   files, closed, guardVars, build, merge, optIdx, warm, ctxs, lastOp>>

MakeSteps ==
    \/ MakeStepsTo
    \/ MakeStepsOf("accounts", "accountSteps", "codeSteps")
    \/ MakeStepsOf("code", "codeSteps", "storageSteps")
    \/ MakeStepsOf("storage", "storageSteps", "return")
    \/ MakeStepsReturn

NextSteps == QuietWriter \/ Background \/ MakeSteps

SpecSteps == Init /\ [][NextSteps]_vars

-----------------------------------------------------------------------------
(* The pipeline with readers making contexts *)

NextCtx == QuietWriter \/ Background \/ Readers

SpecCtx == Init /\ [][NextCtx]_vars

-----------------------------------------------------------------------------
(* The writer alone on history: changes, BuildFiles, MergeLoop, Prune *)

HistWriter ==
    \/ \E t \in (txNum + 1)..MaxDataTxNum : SetTxNum(t)
    \/ \E k \in Keys :
          /\ Cardinality(written["accounts"]) < MaxChanges
          /\ AddAccountPrev(k, NextVal("accounts"))

Maintenance ==
    \/ BuildFiles
    \/ mergeLoopStep(TRUE)
    \/ \E limit \in 1..MaxLimit : Prune(limit)

NextHist == HistWriter \/ Maintenance

SpecHist == InitKeepNothing /\ [][NextHist]_vars

\* the same, when a.mergeFiles may fail
NextMerge == NextHist \/ mergeLoopStep(FALSE)

SpecMerge == InitKeepNothing /\ [][NextMerge]_vars

-----------------------------------------------------------------------------
(* The writer alone, calling MergeLoop *)

\* the writer enters MergeLoop
MergeLoopCall ==
    /\ wpc.pc = "idle"
    /\ wpc' = [pc |-> "MergeLoop", step |-> 0]
    /\ lastOp' = "MergeLoop"
    /\ UNCHANGED <<cfgVars, ctxDone, locality, orphans, loader, domVars, txNum, maxTxNum, dataVars, files, closed, guardVars,
                   build, merge, optIdx, warm, ctxs>>

\* a mergeLoopStep that reports no merge whatever it found
nothingMerged(r) == FALSE

\* what mergeLoopStep reports to MergeLoop: false when !r.any(), true after a merge
somethingMerged(r) == RangesAny(r)

\* one turn of the loop of MergeLoop when a.mergeFiles and a.deleteFiles do not fail:
\* mergeLoopStep merges a range and the loop goes on, or finds none and MergeLoop returns nil
MergeLoopTurn ==
    /\ wpc.pc = "MergeLoop"
    /\ \E r \in {findMergeRange(files, maxTxNum, aggregationStep, MaxSpan)} :
       \E outs \in {staticFilesInRange(files, r)} :
       \E in \in {mergeFiles(outs, r)} :
          IF somethingMerged(r)
          THEN /\ files' = integrateMergedFiles(files, outs, in)
               /\ closed' = closed \cup deleteFiles(outs, Taken, 0) \cup closeOnReturn(FALSE, outs, in)
               /\ wpc' = [wpc EXCEPT !.step = @ + 1]
               /\ lastOp' = "merge"
          ELSE /\ wpc' = Idle
               /\ lastOp' = "MergeLoopNil"
               /\ UNCHANGED <<files, closed>>
    /\ UNCHANGED <<cfgVars, ctxDone, locality, orphans, loader, domVars, txNum, maxTxNum, dataVars, guardVars, build, merge,
                   optIdx, warm, ctxs>>

LoopWriter ==
    \/ \E t \in (txNum + 1)..MaxLoopTxNum : SetTxNum(t)
    \/ /\ Cardinality(written["accounts"]) < MaxChanges
       /\ AddAccountPrev(KeySeq[1], NextVal("accounts"))

NextMergeLoop == LoopWriter \/ BuildFiles \/ MergeLoopCall \/ MergeLoopTurn

\* the thread that called MergeLoop keeps running it
SpecMergeLoop == InitKeepNothing /\ [][NextMergeLoop]_vars /\ WF_vars(MergeLoopTurn)

-----------------------------------------------------------------------------
(* The writer alone on the history of one account, as in scenario A *)

ScenarioWriter ==
    \/ \E t \in (txNum + 1)..MaxScenarioTxNum : SetTxNum(t)
    \/ /\ Cardinality(written["accounts"]) < MaxChanges
       /\ AddAccountPrev("0xAA", NextVal("accounts"))

NextScenario == ScenarioWriter \/ Maintenance

SpecScenario == Init /\ [][NextScenario]_vars

-----------------------------------------------------------------------------
(* The writer alone on accounts and storage: changes, BuildFiles, MergeLoop, Prune, Unwind *)

\* the writer advances and changes keys, then unwinds once
UnwindWriter ==
    \/ /\ loader = NoUnwind
       /\ \E t \in (txNum + 1)..MaxUnwindTxNum : SetTxNum(t)
    \/ /\ loader = NoUnwind
       /\ Cardinality(written["accounts"]) + Cardinality(written["storage"]) < MaxChanges
       /\ \/ \E k \in Keys : AddAccountPrev(k, NextVal("accounts"))
          \/ AddStoragePrev(KeySeq[1], NextVal("storage"))
    \/ /\ loader = NoUnwind
       /\ \E t \in 0..txNum : Unwind(t)

NextUnwind == UnwindWriter \/ Maintenance

SpecUnwind == Init /\ [][NextUnwind]_vars

MaxRewindTxNum == 4   \* where the writer that unwinds every table stops

\* component number i has a row of the current txNum
WroteAt(i) == \E r \in written[CompSeq[i]] : r.txNum = txNum

\* the turn of component number i in the transaction of the current txNum
TurnOf(i) == ~WroteAt(i) /\ (IF i = 1 THEN TRUE ELSE WroteAt(i - 1))

\* a transaction changes an account, its storage and its code and touches the four
\* indices, in this order; the writer advances between transactions and unwinds once
UnwindAllWriter ==
    \/ /\ loader = NoUnwind
       /\ txNum < MaxRewindTxNum
       /\ WroteAt(1) => WroteAt(Len(CompSeq))
       /\ SetTxNum(txNum + 1)
    \/ /\ loader = NoUnwind
       /\ \/ TurnOf(1) /\ AddAccountPrev(KeySeq[1], NextVal("accounts"))
          \/ TurnOf(2) /\ AddStoragePrev(KeySeq[1], NextVal("storage"))
          \/ TurnOf(3) /\ AddCodePrev(KeySeq[1], NextVal("code"))
          \/ TurnOf(4) /\ AddLogAddr(KeySeq[1])
          \/ TurnOf(5) /\ AddLogTopic(KeySeq[1])
          \/ TurnOf(6) /\ AddTraceFrom(KeySeq[1])
          \/ TurnOf(7) /\ AddTraceTo(KeySeq[1])
    \/ /\ loader = NoUnwind
       /\ \E t \in 0..txNum : Unwind(t)

NextUnwindAll == UnwindAllWriter \/ BuildFiles \/ Prune(MaxLimit)

SpecUnwindAll == InitKeepNothing /\ [][NextUnwindAll]_vars

-----------------------------------------------------------------------------
(* CanPrune and PruneWithTiemout *)

MaxRounds == 2   \* turns of the loop of PruneWithTiemout before the timeout

\* the row budget PruneWithTiemout gives to every Prune
PruneBatch == 1000

\* kv.FirstKey(tx, table): the txNum of the first key of a keys table, if it has one
FirstKey(rows) == IF rows = {} THEN [found |-> FALSE, txNum |-> 0]
                  ELSE [found |-> TRUE, txNum |-> Min({r.txNum : r \in rows})]

\* AggregatorV3.CanPruneFrom: the smaller first txNum of TracesToKeys and
\* StorageHistoryKeys when both have one; otherwise MaxUint64 (found is FALSE)
CanPruneFrom(d) ==
    LET fst == FirstKey(d["tracesTo"])
        fst2 == FirstKey(d["storage"])
    IN IF fst.found /\ fst2.found
       THEN [found |-> TRUE, txNum |-> Min({fst.txNum, fst2.txNum})]
       ELSE [found |-> FALSE, txNum |-> 0]

\* AggregatorV3.CanPrune: CanPruneFrom(tx) < maxTxNum, which MaxUint64 never is
CanPrune(d, mx) == CanPruneFrom(d).found /\ CanPruneFrom(d).txNum < mx

\* the loop of PruneWithTiemout: Prune(ctx, 1_000) while CanPrune, for the turns the
\* timeout leaves
RECURSIVE pruneLoop(_, _, _)
pruneLoop(d, mx, rounds) ==
    IF CanPrune(d, mx) /\ rounds > 0
    THEN pruneLoop([c \in Comps |-> pruneOf(d[c], 0, mx, PruneBatch)], mx, rounds - 1)
    ELSE d

\* AggregatorV3.PruneWithTiemout
PruneWithTiemout(rounds) ==
    /\ wpc.pc = "idle"
    /\ db' = pruneLoop(db, pruneTo, rounds)
    /\ call' = [fn |-> "PruneWithTiemout", rounds |-> rounds, could |-> CanPrune(db, maxTxNum)]
    /\ lastOp' = "prune"
    /\ UNCHANGED <<cfgVars, ctxDone, locality, orphans, loader, commitment, touchVars, txNum, maxTxNum,
                   latest, written, files, closed, guardVars, wpc, build, merge, optIdx, warm, ctxs>>

\* the writer changes an account and its storage and touches tracesTo
CanPruneWriter ==
    \/ /\ txNum < MaxRewindTxNum
       /\ SetTxNum(txNum + 1)
    \/ /\ Cardinality(UNION {written[c] : c \in Comps}) < MaxChanges
       /\ \/ AddAccountPrev(KeySeq[1], NextVal("accounts"))
          \/ AddStoragePrev(KeySeq[1], NextVal("storage"))
          \/ AddTraceTo(KeySeq[1])

NextCanPrune == CanPruneWriter \/ BuildFiles \/ \E rounds \in 0..MaxRounds : PruneWithTiemout(rounds)

SpecCanPrune == InitKeepNothing /\ [][NextCanPrune]_vars

\* scenario A, then advance to ScenarioDTxNum and unwind; no Unwind follows an Unwind
ScenarioDWriter ==
    \/ /\ txNum <= MaxScenarioTxNum
       /\ ScenarioWriter
    \/ /\ txNum = MaxScenarioTxNum
       /\ SetTxNum(ScenarioDTxNum)
    \/ /\ txNum = ScenarioDTxNum
       /\ loader = NoUnwind
       /\ \E t \in 0..txNum : Unwind(t)

NextScenarioD == ScenarioDWriter \/ Maintenance

SpecScenarioD == Init /\ [][NextScenarioD]_vars

\* NewAggregatorV3 with aggregationStep 4, as the scenarios have it
InitScenarioB ==
    /\ aggregationStep = 4
    /\ keepInDB = 2 * aggregationStep
    /\ InitCommon

\* scenario A, then advance to ScenarioDTxNum
ScenarioBWriter ==
    \/ /\ txNum <= MaxScenarioTxNum
       /\ ScenarioWriter
    \/ /\ txNum = MaxScenarioTxNum
       /\ SetTxNum(ScenarioDTxNum)

NextScenarioB == ScenarioBWriter \/ Maintenance

SpecScenarioB == InitScenarioB /\ [][NextScenarioB]_vars

-----------------------------------------------------------------------------
(* domain_committed.go: the short keys of the commitment domain *)

\* the values a byte takes in the inputs
ByteVals == {0, 1, 255}

\* a uint64 as its eight bytes, the most significant first
U64s == [1..8 -> ByteVals]
Zero64 == [i \in 1..8 |-> 0]

\* a uint16 as its two bytes: binary.BigEndian.PutUint16 / binary.BigEndian.Uint16
U16s == [1..2 -> ByteVals]

\* the first byte of i that is not zero, 8 when i < 1 << 8
FirstByte(i) == IF \E n \in 1..7 : i[n] # 0 THEN CHOOSE n \in 1..7 : i[n] # 0 /\ \A m \in 1..(n - 1) : i[m] = 0
                ELSE 8

\* encodeU64: append i to the buffer in big endian order with the least number of bytes
encodeU64(i, to) == to \o SubSeq(i, FirstByte(i), 8)

\* decodeU64: i = (i << 8) | uint64(b) for every byte, in 64 bits
RECURSIVE decodeU64From(_, _, _)
decodeU64From(i, from, n) ==
    IF n > Len(from) THEN i
    ELSE decodeU64From(SubSeq(i, 2, 8) \o <<from[n]>>, from, n + 1)
decodeU64(from) == decodeU64From(Zero64, from, 1)

\* shortenedKey: step = Uint16(apk[:2]), offset = decodeU64(apk[1:])
shortenedKey(apk) == <<SubSeq(apk, 1, 2), decodeU64(SubSeq(apk, 2, Len(apk)))>>

\* replaceKeyWithReference, lines 227-231: numBuf is the step, shortKey = encodeU64(offset, numBuf[:])
newShortKey(step, offset) == encodeU64(offset, step)

InitShortKey ==
    /\ aggregationStep = 2
    /\ keepInDB = 2 * aggregationStep
    /\ InitCommon

\* build the short key of (fileStep, offset)
MakeShortKey ==
    /\ call = NoCall
    /\ \E step \in U16s, offset \in U64s :
          call' = [fn |-> "encodeU64", fileStep |-> step, offset |-> offset,
                   shortKey |-> newShortKey(step, offset)]
    /\ UNCHANGED <<aggVars, commitment, touchVars>>

\* read it back
ReadShortKey ==
    /\ call.fn = "encodeU64"
    /\ call' = [fn |-> "shortenedKey", fileStep |-> call.fileStep, offset |-> call.offset,
                shortKey |-> call.shortKey, ret |-> shortenedKey(call.shortKey)]
    /\ UNCHANGED <<aggVars, commitment, touchVars>>

NextShortKey == MakeShortKey \/ ReadShortKey

SpecShortKey == InitShortKey /\ [][NextShortKey]_vars

-----------------------------------------------------------------------------
(* domain_committed.go: the commitment state record *)

\* a long []byte as runs <<byte, count>> with count > 0 and no two neighbours of one byte
RECURSIVE RLen(_)
RLen(b) == IF b = <<>> THEN 0 ELSE Head(b)[2] + RLen(Tail(b))

\* b[:n]
RECURSIVE RTake(_, _)
RTake(b, n) ==
    IF n <= 0 \/ b = <<>> THEN <<>>
    ELSE IF Head(b)[2] >= n THEN <<<<Head(b)[1], n>>>>
    ELSE <<Head(b)>> \o RTake(Tail(b), n - Head(b)[2])

\* b[n:]
RECURSIVE RDrop(_, _)
RDrop(b, n) ==
    IF n <= 0 \/ b = <<>> THEN b
    ELSE IF Head(b)[2] > n THEN <<<<Head(b)[1], Head(b)[2] - n>>>> \o Tail(b)
    ELSE RDrop(Tail(b), n - Head(b)[2])

\* the bytes of a short []byte, one by one
RECURSIVE Expand(_)
Expand(b) ==
    IF b = <<>> THEN <<>>
    ELSE IF Head(b)[2] = 1 THEN <<Head(b)[1]>> \o Expand(Tail(b))
    ELSE <<Head(b)[1]>> \o Expand(<<<<Head(b)[1], Head(b)[2] - 1>>>> \o Tail(b))

\* bytes.Buffer.Write: append the bytes of a fixed array, then a long []byte
Written(v, bytes) == [i \in 1..Len(v) |-> <<v[i], 1>>] \o bytes

\* uint16(n), the width of trieLen
Uint16Range == 65536

\* a length written in three bytes
PutUint24(n) == <<n \div Uint16Range, (n % Uint16Range) \div 256, n % 256>>

\* binary.BigEndian.PutUint16(v, uint16(n)) and binary.BigEndian.Uint16
PutUint16(n) == <<(n % Uint16Range) \div 256, n % 256>>
Uint16(v) == v[1] * 256 + v[2]

\* commitmentState.Encode: v[0:8] txNum, v[8:16] blockNum, v[16:18] uint16(len(trieState)),
\* then trieState
Encode(cs) == Written(cs.txNum \o cs.blockNum \o PutUint16(RLen(cs.trieState)), cs.trieState)

\* commitmentState.Decode of buf = arr[:n], arr being the array behind buf, so that
\* cap(buf) = RLen(arr). A slice expression buf[low:high] is checked against cap(buf), never
\* len(buf): it panics past the capacity and gives the bytes past len(buf) below it.
\* outside: a byte at an index >= len(buf) has been read
DecodeSlice(arr, n) ==
    IF n < 10 THEN [err |-> TRUE, panic |-> FALSE, outside |-> FALSE]
    ELSE IF RLen(arr) < 18
         THEN [err |-> FALSE, panic |-> TRUE, outside |-> n < 16 /\ RLen(arr) >= 16]
    ELSE LET trieLen == Uint16(Expand(RTake(RDrop(arr, 16), 2)))
             header == [err |-> FALSE, panic |-> FALSE,
                        txNum |-> Expand(RTake(arr, 8)),
                        blockNum |-> Expand(RTake(RDrop(arr, 8), 8))]
         IN IF trieLen = 0 /\ n = 10
            THEN header @@ [trieState |-> <<>>, outside |-> TRUE]
            ELSE IF 18 + trieLen > RLen(arr)
            THEN [err |-> FALSE, panic |-> TRUE, outside |-> n < 18]
            ELSE header @@ [trieState |-> RTake(RDrop(arr, 18), trieLen),
                            outside |-> n < 18 \/ 18 + trieLen > n]

\* commitmentState.Decode of a buffer that fills its array: len(buf) = cap(buf)
Decode(buf) == DecodeSlice(buf, RLen(buf))

\* the lengths of trieState in the inputs
MaxTrieLen == 65537
TrieLens == {0, 1, 2, 255, 256, 257, 65534, 65535, 65536, MaxTrieLen}

\* a trieState of n bytes: n - 1 bytes a and a last byte b
TrieState(n, a, b) ==
    IF n = 0 THEN <<>>
    ELSE IF n = 1 THEN <<<<b, 1>>>>
    ELSE IF a = b THEN <<<<a, n>>>>
    ELSE <<<<a, n - 1>>, <<b, 1>>>>

\* the txNum and blockNum of the inputs
U64Samples == {x \in U64s : \A i \in 2..7 : x[i] = 0}

\* cs.Encode()
EncodeState ==
    /\ call = NoCall
    /\ \E t \in U64Samples, b \in {x \in U64Samples : x[1] = 0},
          n \in TrieLens, f \in {0, 255}, l \in {1, 255} :
          \E cs \in {[txNum |-> t, blockNum |-> b, trieState |-> TrieState(n, f, l)]} :
             call' = [fn |-> "Encode", cs |-> cs, buf |-> Encode(cs)]
    /\ UNCHANGED <<aggVars, commitment, touchVars>>

\* latest.Decode(buf)
DecodeState ==
    /\ call.fn = "Encode"
    /\ call' = [fn |-> "Decode", cs |-> call.cs, buf |-> call.buf, ret |-> Decode(call.buf)]
    /\ UNCHANGED <<aggVars, commitment, touchVars>>

NextState == EncodeState \/ DecodeState

SpecState == InitShortKey /\ [][NextState]_vars

\* the lengths and capacities of the buffers given to Decode, besides those of the whole record
DecodeLens == {0, 9, 10, 15, 16, 17, 18, 19}

\* cs.Decode(buf) of the first n bytes of a record, in an array of c bytes of it
DecodeBuffer ==
    /\ call.fn = "Encode"
    /\ \E c \in {x \in DecodeLens \cup {RLen(call.buf)} : x <= RLen(call.buf)} :
          \E n \in {x \in DecodeLens \cup {c} : x <= c} :
             call' = [fn |-> "DecodeBuffer", cs |-> call.cs, arr |-> RTake(call.buf, c),
                      len |-> n, ret |-> DecodeSlice(RTake(call.buf, c), n)]
    /\ UNCHANGED <<aggVars, commitment, touchVars>>

NextDecode == EncodeState \/ DecodeBuffer

SpecDecode == InitShortKey /\ [][NextDecode]_vars

-----------------------------------------------------------------------------
(* domain_committed.go: the key references of a branch record at a merge *)

\* length.Addr and length.Hash
AddrLen == 20
HashLen == 32
KeyLen(typAS) == IF typAS = "account" THEN AddrLen ELSE AddrLen + HashLen

\* the long keys of the inputs: one byte repeated
KeyBytes == {1, 2, 3}
LongKey(typAS, b) == [i \in 1..KeyLen(typAS) |-> b]

\* a number below 1 << 24 as a uint64
ToU64(n) ==
    [i \in 1..8 |-> IF i = 6 THEN (n \div 65536) % 256 ELSE IF i = 7 THEN (n \div 256) % 256
                    ELSE IF i = 8 THEN n % 256 ELSE 0]

\* the keys of a file in their order
RECURSIVE KeysInOrder(_)
KeysInOrder(S) ==
    IF S = {} THEN <<>>
    ELSE LET b == CHOOSE x \in S : \A y \in S : x <= y IN <<b>> \o KeysInOrder(S \ {b})

\* a .kv file of accounts or storage: its span and its words, every key followed by a
\* value of one byte
KvFile(typAS, startTxNum, endTxNum, S) ==
    [typAS |-> typAS, startTxNum |-> startTxNum, endTxNum |-> endTxNum, keys |-> KeysInOrder(S)]
WordsLen(typAS) == KeyLen(typAS) + 1
OffsetOf(item, i) == (i - 1) * WordsLen(item.typAS)
Size(item) == Len(item.keys) * WordsLen(item.typAS)

\* g.Reset(offset); g.Next(): the key that starts at offset
KeyAt(item, offset) ==
    IF \E i \in 1..Len(item.keys) : ToU64(OffsetOf(item, i)) = offset
    THEN LongKey(item.typAS, item.keys[CHOOSE i \in 1..Len(item.keys) : ToU64(OffsetOf(item, i)) = offset])
    ELSE <<>>

\* index.Lookup(fullKey), g.Reset(offset), g.Match(fullKey): the places of fullKey in item
PlacesOf(item, fullKey) == {i \in 1..Len(item.keys) : LongKey(item.typAS, item.keys[i]) = fullKey}

\* replaceKeyWithReference: found, and the value its own variable shortKey ends with
replaceKeyWithReference(fullKey, shortKey, list) ==
    LET hits == {n \in 1..Len(list) : PlacesOf(list[n], fullKey) # {}} IN
    IF hits = {} THEN [found |-> FALSE, shortKey |-> shortKey]
    ELSE LET item == list[CHOOSE n \in hits : \A m \in hits : n <= m]
             i == CHOOSE x \in PlacesOf(item, fullKey) : TRUE
         IN [found |-> TRUE,
             shortKey |-> encodeU64(ToU64(OffsetOf(item, i)), PutUint16(item.endTxNum \div aggregationStep))]

\* uint64(g.Size()) <= offset + size is false
Holds(item, offset) == \E n \in 0..(Size(item) - KeyLen(item.typAS) - 1) : ToU64(n) = offset

\* lookupShortenedKey: found, the value its own variable fullKey ends with, and what the
\* caller's buffer holds afterwards: g.Next(fullKey[:0]) writes into the caller's array
\* when that has room, and the caller's slice keeps its length
lookupShortenedKey(shortKey, fullKey, list) ==
    LET sk == shortenedKey(shortKey)
        expected == Uint16(sk[1]) * aggregationStep
        hits == {n \in 1..Len(list) :
                    /\ ~(list[n].startTxNum > expected \/ list[n].endTxNum < expected)
                    /\ Holds(list[n], sk[2])}
    IN IF hits = {} THEN [found |-> FALSE, fullKey |-> fullKey, buf |-> fullKey]
       ELSE LET item == list[CHOOSE n \in hits : \A m \in hits : n <= m]
                key == KeyAt(item, sk[2])
            IN [found |-> TRUE, fullKey |-> key,
                buf |-> IF fullKey = <<>> THEN <<>> ELSE SubSeq(key, 1, Len(fullKey))]

\* the loops of commitmentValTransform from key n on: buf is apkBuf or spkBuf; what is
\* appended to the transformed keys is the caller's accountPlainKey or storagePlainKey
RECURSIVE transPks(_, _, _, _, _)
transPks(plainKeys, n, buf, list, merged) ==
    IF n > Len(plainKeys) THEN <<>>
    ELSE LET plainKey == plainKeys[n]
             full == IF Len(plainKey) = KeyLen(merged[1].typAS) THEN plainKey
                     ELSE lookupShortenedKey(plainKey, buf, list).buf
             r == replaceKeyWithReference(full, plainKey, merged)
         IN <<[key |-> plainKey, fullKey |-> full, found |-> r.found, shortKey |-> r.shortKey]>>
            \o transPks(plainKeys, n + 1, full, list, merged)

\* commitmentValTransform of a record with these account and storage keys:
\* val.ReplacePlainKeys(transAccountPks, transStoragePks, nil)
commitmentValTransform(old, merged, val) ==
    LET a == transPks(val.accounts, 1, <<>>, old.accounts, merged.accounts)
        s == transPks(val.storage, 1, <<>>, old.storage, merged.storage)
    IN [accounts |-> [n \in 1..Len(a) |-> a[n].key], storage |-> [n \in 1..Len(s) |-> s[n].key],
        replaced |-> a \o s]

\* the files of one domain selected for a merge of steps 0-1 and 1-2, and their merged file
OldFiles(typAS, S1, S2) ==
    <<KvFile(typAS, 0, aggregationStep, S1), KvFile(typAS, aggregationStep, 2 * aggregationStep, S2)>>
MergedFile(typAS, S1, S2) == <<KvFile(typAS, 0, 2 * aggregationStep, S1 \cup S2)>>

\* the references a branch record may hold to the keys of list: the long keys, and the
\* short keys of the keys of every file
RefsTo(list) ==
    UNION {{LongKey(list[n].typAS, list[n].keys[i]) : i \in 1..Len(list[n].keys)}
           \cup {encodeU64(ToU64(OffsetOf(list[n], i)), PutUint16(list[n].endTxNum \div aggregationStep)) :
                    i \in 1..Len(list[n].keys)} : n \in 1..Len(list)}

\* the records of the inputs: at most MaxRefs account keys and at most one storage key
MaxRefs == 2
KeySets == SUBSET KeyBytes \ {{}}
Records(old) ==
    {[accounts |-> a, storage |-> s] :
        a \in UNION {[1..n -> RefsTo(old.accounts)] : n \in 1..MaxRefs},
        s \in UNION {[1..n -> RefsTo(old.storage)] : n \in 0..1}}

\* DomainCommitted.mergeFiles reaches a record of the commitment files: val.ExtractPlainKeys()
ExtractPlainKeys ==
    /\ call = NoCall
    /\ \E S1 \in KeySets, S2 \in KeySets :
          \E old \in {[accounts |-> OldFiles("account", S1, S2), storage |-> OldFiles("storage", S1, S2)]} :
             \E val \in Records(old) :
                call' = [fn |-> "ExtractPlainKeys", files |-> old,
                         merged |-> [accounts |-> MergedFile("account", S1, S2),
                                     storage |-> MergedFile("storage", S1, S2)],
                         val |-> val]
    /\ UNCHANGED <<aggVars, commitment, touchVars>>

\* and writes the transformed record
TransformVal ==
    /\ call.fn = "ExtractPlainKeys"
    /\ call' = [fn |-> "commitmentValTransform", files |-> call.files, merged |-> call.merged,
                val |-> call.val, ret |-> commitmentValTransform(call.files, call.merged, call.val)]
    /\ UNCHANGED <<aggVars, commitment, touchVars>>

NextTransform == ExtractPlainKeys \/ TransformVal

SpecTransform == InitShortKey /\ [][NextTransform]_vars

-----------------------------------------------------------------------------
(* domain_committed.go: the merge of the values files of the commitment domain *)

MaxValueFiles == 3   \* values files selected for one merge

\* Domain.prefixLen of the commitment domain (NewDomain is not in src/)
prefixLen == 0

\* the keys of the values files and bytes.Compare(a, b) < 0 on them
MergeKeys == {<<1>>, <<1, 2>>}
RECURSIVE bytesLess(_, _)
bytesLess(a, b) ==
    IF b = <<>> THEN FALSE
    ELSE IF a = <<>> THEN TRUE
    ELSE IF Head(a) # Head(b) THEN Head(a) < Head(b)
    ELSE bytesLess(Tail(a), Tail(b))
HasPrefix(s, prefix) == Len(prefix) <= Len(s) /\ SubSeq(s, 1, Len(prefix)) = prefix

\* the account and storage files the records of the values refer to, and their merged files
RefOld == [accounts |-> OldFiles("account", {1}, {2}), storage |-> OldFiles("storage", {1}, {2})]
RefMerged == [accounts |-> MergedFile("account", {1}, {2}), storage |-> MergedFile("storage", {1}, {2})]

\* the values: the empty value, a record with a long account key, a record with a short one
EmptyVal == [len |-> 0]
MergeVals ==
    {EmptyVal,
     [accounts |-> <<LongKey("account", 1)>>, storage |-> <<>>],
     [accounts |-> <<encodeU64(ToU64(0), PutUint16(2))>>, storage |-> <<>>]}
lenOf(val) == IF "accounts" \in DOMAIN val THEN 1 ELSE 0

\* the words of a values file: its keys in ascending order, each followed by its value
RECURSIVE WordsOf(_, _)
WordsOf(ks, content) ==
    IF ks = {} THEN <<>>
    ELSE LET k == CHOOSE x \in ks : \A y \in ks \ {x} : bytesLess(x, y)
         IN <<[key |-> k, val |-> content[k]]>> \o WordsOf(ks \ {k}, content)

\* valuesFiles: n files of one step each from valuesStartTxNum on, oldest first
ValuesFiles(start, n) ==
    {[j \in 1..n |-> [startTxNum |-> start + (j - 1) * aggregationStep,
                      endTxNum |-> start + j * aggregationStep,
                      words |-> WordsOf(DOMAIN content[j], content[j])]] :
        content \in [1..n -> UNION {[ks -> MergeVals] : ks \in SUBSET MergeKeys}]}

\* CursorHeap.Less with reverse set: by key, and among equal keys the greater endTxNum
\* first
CursorWord(fs, c) == fs[c.file].words[c.pos]
CursorLess(fs, c1, c2) ==
    \/ bytesLess(CursorWord(fs, c1).key, CursorWord(fs, c2).key)
    \/ /\ CursorWord(fs, c1).key = CursorWord(fs, c2).key
       /\ fs[c1.file].endTxNum > fs[c2.file].endTxNum
Top(fs, cp) == CHOOSE c \in cp : \A d \in cp \ {c} : CursorLess(fs, c, d)

\* lines 386-409: a cursor on the first word of every file that has one
pushCursors(fs) == {[file |-> j, pos |-> 1] : j \in {x \in 1..Len(fs) : fs[x].words # <<>>}}

\* lines 421-435: advance all the items that have this key, including the top
RECURSIVE advanceSame(_, _, _)
advanceSame(fs, cp, lastKey) ==
    IF cp # {} /\ CursorWord(fs, Top(fs, cp)).key = lastKey
    THEN LET ci1 == Top(fs, cp) IN
         advanceSame(fs,
                     (cp \ {ci1}) \cup (IF ci1.pos < Len(fs[ci1.file].words)
                                          THEN {[ci1 EXCEPT !.pos = @ + 1]} ELSE {}),
                     lastKey)
    ELSE cp

\* a merge that drops every empty value
skipEmpty(valuesStartTxNum, lastKey, lastVal) == lenOf(lastVal) = 0

\* lines 436-442: skip
skip(valuesStartTxNum, lastKey, lastVal) ==
    IF prefixLen > 0
    THEN valuesStartTxNum = 0 /\ lenOf(lastVal) = 0 /\ Len(lastKey) # prefixLen
    ELSE valuesStartTxNum = 0 /\ lenOf(lastVal) = 0

\* comp.AddUncompressedWord(keyBuf), then the word of commitmentValTransform(valBuf)
addWords(out, keyBuf, valBuf) ==
    Append(out, [key |-> keyBuf,
                 val |-> IF lenOf(valBuf) = 0 THEN EmptyVal
                         ELSE LET t == commitmentValTransform(RefOld, RefMerged, valBuf)
                              IN [accounts |-> t.accounts, storage |-> t.storage]])

\* lines 418-489: the multi-way merge; keyBuf is nil as long as it is <<>>, no key being
\* empty
RECURSIVE mergeWords(_, _, _, _, _, _)
mergeWords(fs, valuesStartTxNum, cp, keyBuf, valBuf, out) ==
    IF cp = {}
    THEN IF keyBuf # <<>> THEN addWords(out, keyBuf, valBuf) ELSE out
    ELSE LET lastKey == CursorWord(fs, Top(fs, cp)).key
             lastVal == CursorWord(fs, Top(fs, cp)).val
             rest == advanceSame(fs, cp, lastKey)
         IN IF skip(valuesStartTxNum, lastKey, lastVal)
            THEN mergeWords(fs, valuesStartTxNum, rest, keyBuf, valBuf, out)
            ELSE mergeWords(fs, valuesStartTxNum, rest, lastKey, lastVal,
                    IF keyBuf # <<>> /\ (prefixLen = 0 \/ Len(keyBuf) # prefixLen \/ HasPrefix(lastKey, keyBuf))
                    THEN addWords(out, keyBuf, valBuf) ELSE out)

\* DomainCommitted.mergeFiles, r.values: the words of the merged values file
mergeValues(fs, valuesStartTxNum) == mergeWords(fs, valuesStartTxNum, pushCursors(fs), <<>>, EmptyVal, <<>>)

\* the values files of a merge are selected
SelectValues ==
    /\ call = NoCall
    /\ \E start \in {0, aggregationStep}, n \in 2..MaxValueFiles :
       \E fs \in ValuesFiles(start, n) :
          call' = [fn |-> "staticFilesInRange", valuesFiles |-> fs, valuesStartTxNum |-> start]
    /\ UNCHANGED <<aggVars, commitment, touchVars>>

\* and merged
MergeValues ==
    /\ call.fn = "staticFilesInRange"
    /\ call' = [fn |-> "mergeFiles", valuesFiles |-> call.valuesFiles,
                valuesStartTxNum |-> call.valuesStartTxNum,
                words |-> mergeValues(call.valuesFiles, call.valuesStartTxNum)]
    /\ UNCHANGED <<aggVars, commitment, touchVars>>

NextValues == SelectValues \/ MergeValues

SpecValues == InitShortKey /\ [][NextValues]_vars

-----------------------------------------------------------------------------
(* domain_committed.go: storeCommitmentState and SeekCommitment *)

\* a uint64 below 1 << 24 as a number
FromU64(i) == i[6] * 65536 + i[7] * 256 + i[8]

\* i - 1 in 64 bits
Pred64(i) ==
    IF i = Zero64 THEN [n \in 1..8 |-> 255]
    ELSE LET last == CHOOSE n \in 1..8 : i[n] # 0 /\ \A m \in (n + 1)..8 : i[m] = 0
         IN [n \in 1..8 |-> IF n < last THEN i[n] ELSE IF n = last THEN i[n] - 1 ELSE 255]

\* d.Domain.Put(keyCommitmentState, stepbuf, encoded) and ctx.Get(keyCommitmentState, stepbuf, d.tx)
PutState(states, stepbuf, v) == {r \in states : r.step # stepbuf} \cup {[step |-> stepbuf, v |-> v]}
GetState(states, stepbuf) ==
    IF \E r \in states : r.step = stepbuf THEN (CHOOSE r \in states : r.step = stepbuf).v ELSE <<>>

\* d.patriciaTrie.EncodeCurrentState at txNum: two bytes that tell the txNum
EncodeCurrentState(tx) == TrieState(2, tx % 256, 255)

\* storeCommitmentState(blockNum, txNum): the values under "state" afterwards
storeCommitmentState(blockNum, tx) ==
    PutState(commitment, PutUint16(tx \div aggregationStep),
        Encode([txNum |-> ToU64(tx), blockNum |-> ToU64(blockNum), trieState |-> EncodeCurrentState(tx)]))

\* the loop of SeekCommitment from step on
RECURSIVE seekFrom(_, _, _, _)
seekFrom(aggStep, step, latestTxNum, latestState) ==
    LET s == GetState(commitment, PutUint16(step)) IN
    IF RLen(s) < 8 THEN [latestTxNum |-> latestTxNum, latestState |-> latestState]
    ELSE LET v == Expand(RTake(s, 8)) IN
         IF v = latestTxNum /\ RLen(latestState) # 0
         THEN [latestTxNum |-> latestTxNum, latestState |-> latestState]
         ELSE seekFrom(aggStep, (FromU64(v) \div aggStep + 1) % Uint16Range, v, s)

\* what SeekCommitment returns when it sets no state: 0, nil
NoState == [txNum |-> Zero64, err |-> FALSE, set |-> FALSE]

\* SeekCommitment(aggStep, sinceTx): step starts at uint16(sinceTx/aggStep) - 1 and
\* latestTxNum at sinceTx - 1
SeekCommitment(aggStep, sinceTx) ==
    LET l == seekFrom(aggStep, (sinceTx \div aggStep - 1) % Uint16Range, Pred64(ToU64(sinceTx)), <<>>)
        last == Decode(l.latestState)
    IN IF last.err THEN NoState
       ELSE [txNum |-> last.txNum, err |-> FALSE, set |-> TRUE, trieState |-> last.trieState]

\* the txNums of the checkpoints and of sinceTx
MaxSeekTxNum == 7
StoredTxNums == {FromU64(Expand(RTake(r.v, 8))) : r \in commitment}

\* the commitment is computed and its state stored at a txNum above those stored before,
\* in one of the first steps or in the last step a uint16 counts
StoreState ==
    /\ \E tx \in 0..MaxSeekTxNum \cup {(Uint16Range - 1) * aggregationStep} :
          /\ \A t \in StoredTxNums : t < tx
          /\ commitment' = storeCommitmentState(0, tx)
          /\ call' = [fn |-> "storeCommitmentState", txNum |-> tx]
    /\ UNCHANGED <<aggVars, touchVars>>

\* d.SeekCommitment(aggregationStep, sinceTx)
Seek ==
    /\ \E sinceTx \in 0..(MaxSeekTxNum + 1) :
          call' = [fn |-> "SeekCommitment", aggStep |-> aggregationStep, sinceTx |-> sinceTx,
                   ret |-> SeekCommitment(aggregationStep, sinceTx)]
    /\ UNCHANGED <<aggVars, commitment, touchVars>>

NextSeek == StoreState \/ Seek

SpecSeek == InitShortKey /\ [][NextSeek]_vars

-----------------------------------------------------------------------------
(* domain_committed.go: the touched keys and ComputeCommitment *)

Modes == {"CommitmentModeDisabled", "CommitmentModeDirect", "CommitmentModeUpdate"}

\* the plain keys of the inputs: an address, or an address and a storage location
Addrs == {"a1", "a2"}
PlainKeys == {<<a>> : a \in Addrs} \cup {<<"a1", "loc1">>}

\* keccak, and hashAndNibblizeKey: the hash of the address, then the hash of the rest
Keccak(x) == <<"keccak", x>>
hashAndNibblizeKey(key) == [i \in 1..Len(key) |-> Keccak(key[i])]

\* the values of the inputs: an account as <<nonce, balance>>, code and storage as bytes
AccountVals == {<<>>, <<1, 5>>, <<2, 7>>}
CodeVals == {<<>>, <<96>>}
StorageVals == {<<>>, <<9>>}
EmptyCodeHash == Keccak(<<>>)

\* commitment.Update as a new CommitmentItem has it
NoUpdate == [Flags |-> {}, Nonce |-> 0, Balance |-> 0, CodeHashOrStorage |-> <<>>, ValLength |-> 0]

\* d.commTree.Get: the items of the hashedKey, one or none
TreeGet(hashedKey) == {item \in commTree : item.hashedKey = hashedKey}

\* Update.DecodeForStorage(val) of an account
DecodeForStorage(u, val) == [u EXCEPT !.Nonce = val[1], !.Balance = val[2], !.CodeHashOrStorage = EmptyCodeHash]

\* an account touch that does not look for the item the tree holds
touchAccountAlone(c, val) ==
    IF Len(val) = 0 THEN [c.update EXCEPT !.Flags = {"DELETE_UPDATE"}]
    ELSE [DecodeForStorage(c.update, val) EXCEPT !.Flags = {"BALANCE_UPDATE", "NONCE_UPDATE"}]

\* TouchPlainKeyAccount: the update of c
TouchPlainKeyAccount(c, val) ==
    IF Len(val) = 0 THEN [c.update EXCEPT !.Flags = {"DELETE_UPDATE"}]
    ELSE LET u == [DecodeForStorage(c.update, val) EXCEPT !.Flags = {"BALANCE_UPDATE", "NONCE_UPDATE"}] IN
         IF TreeGet(c.hashedKey) = {} THEN u
         ELSE LET item == CHOOSE x \in TreeGet(c.hashedKey) : TRUE IN
              IF "CODE_UPDATE" \in item.update.Flags
              THEN [u EXCEPT !.Flags = @ \cup {"CODE_UPDATE"},
                             !.CodeHashOrStorage = item.update.CodeHashOrStorage]
              ELSE u

\* TouchPlainKeyStorage: the update of c
TouchPlainKeyStorage(c, val) ==
    IF Len(val) = 0 THEN [c.update EXCEPT !.ValLength = 0, !.Flags = {"DELETE_UPDATE"}]
    ELSE [c.update EXCEPT !.ValLength = Len(val), !.Flags = {"STORAGE_UPDATE"}, !.CodeHashOrStorage = val]

\* TouchPlainKeyCode: the update of c
TouchPlainKeyCode(c, val) ==
    IF TreeGet(c.hashedKey) = {}
    THEN [c.update EXCEPT !.Flags = {"CODE_UPDATE"}, !.CodeHashOrStorage = Keccak(val)]
    ELSE LET item == CHOOSE x \in TreeGet(c.hashedKey) : TRUE
             b == IF "BALANCE_UPDATE" \in item.update.Flags
                  THEN [c.update EXCEPT !.Flags = {"CODE_UPDATE", "BALANCE_UPDATE"}, !.Balance = item.update.Balance]
                  ELSE [c.update EXCEPT !.Flags = {"CODE_UPDATE"}]
             n == IF "NONCE_UPDATE" \in item.update.Flags
                  THEN [b EXCEPT !.Flags = @ \cup {"NONCE_UPDATE"}, !.Nonce = item.update.Nonce]
                  ELSE b
         IN IF item.update.Flags = {"DELETE_UPDATE"} /\ Len(val) = 0
            THEN [n EXCEPT !.Flags = {"DELETE_UPDATE"}]
            ELSE [n EXCEPT !.CodeHashOrStorage = Keccak(val)]

TouchFn(fn, c, val) ==
    IF fn = "TouchPlainKeyAccount" THEN TouchPlainKeyAccount(c, val)
    ELSE IF fn = "TouchPlainKeyStorage" THEN TouchPlainKeyStorage(c, val)
    ELSE TouchPlainKeyCode(c, val)

\* d.commTree.ReplaceOrInsert(c): the item of the same hashedKey gives way
ReplaceOrInsert(tree, c) == {item \in tree : item.hashedKey # c.hashedKey} \cup {c}

\* history of the run: the touches of every address since the tree was last cleared, while
\* they are one or two touches made in CommitmentModeUpdate
Untold == <<[fn |-> "untold", val |-> <<>>]>>
Touches == IF "touches" \in DOMAIN call THEN call.touches ELSE [a \in Addrs |-> <<>>]
TouchesWith(key, val, fn) ==
    IF mode = "CommitmentModeDisabled" \/ Len(key) # 1 THEN Touches
    ELSE [Touches EXCEPT ![key[1]] =
            IF mode = "CommitmentModeUpdate" /\ @ # Untold /\ Len(@) < 2
            THEN Append(@, [fn |-> fn, val |-> val]) ELSE Untold]

\* TouchPlainKey(key, val, fn)
TouchPlainKey(key, val, fn) ==
    /\ commTree' =
          IF mode = "CommitmentModeDisabled" THEN commTree
          ELSE LET c == [plainKey |-> key, hashedKey |-> hashAndNibblizeKey(key), update |-> NoUpdate] IN
               IF mode = "CommitmentModeUpdate"
               THEN ReplaceOrInsert(commTree, [c EXCEPT !.update = TouchFn(fn, c, val)])
               ELSE ReplaceOrInsert(commTree, c)
    /\ call' = [fn |-> fn, key |-> key, val |-> val, touches |-> TouchesWith(key, val, fn)]
    /\ UNCHANGED <<aggVars, commitment, mode>>

\* the writer touches an account, a storage location or the code of an account
Touch ==
    \/ \E a \in Addrs, val \in AccountVals : TouchPlainKey(<<a>>, val, "TouchPlainKeyAccount")
    \/ \E a \in Addrs, val \in CodeVals : TouchPlainKey(<<a>>, val, "TouchPlainKeyCode")
    \/ \E key \in PlainKeys, val \in StorageVals :
          Len(key) = 2 /\ TouchPlainKey(key, val, "TouchPlainKeyStorage")

SetCommitmentMode(m) ==
    /\ mode' = m
    /\ call' = [fn |-> "SetCommitmentMode", touches |-> Touches]
    /\ UNCHANGED <<aggVars, commitment, commTree>>

\* d.commTree.Clear(true), and leaving the items where they are
treeKept(tree) == tree
treeCleared(tree) == {}

\* TouchedKeyList: the items in the order of their hashedKey leave the tree; the model
\* keeps them as a set
TouchedKeyList == [touched |-> commTree, tree |-> treeCleared(commTree)]

\* ComputeCommitment: ok tells whether the trie processes the keys without an error
ComputeCommitment(ok) ==
    LET l == TouchedKeyList
        ret == IF l.touched = {} THEN [rootHash |-> "RootHash", branchNodeUpdates |-> "nil", err |-> ~ok]
               ELSE IF mode = "CommitmentModeDirect"
               THEN IF ok THEN [rootHash |-> "ReviewKeys", branchNodeUpdates |-> l.touched, err |-> FALSE]
                    ELSE [rootHash |-> "nil", branchNodeUpdates |-> "nil", err |-> TRUE]
               ELSE IF mode = "CommitmentModeUpdate"
               THEN IF ok THEN [rootHash |-> "ProcessUpdates", branchNodeUpdates |-> l.touched, err |-> FALSE]
                    ELSE [rootHash |-> "nil", branchNodeUpdates |-> "nil", err |-> TRUE]
               ELSE [rootHash |-> "nil", branchNodeUpdates |-> "nil", err |-> TRUE]
    IN /\ commTree' = l.tree
       /\ call' = [fn |-> "ComputeCommitment", touched |-> l.touched, ret |-> ret,
                   touches |-> [a \in Addrs |-> <<>>],
                   again |-> call.fn = "ComputeCommitment",
                   afterError |-> call.fn = "ComputeCommitment" /\ call.touched # {} /\ call.ret.err]
       /\ UNCHANGED <<aggVars, commitment, mode>>

NextTouch ==
    \/ Touch
    \/ \E m \in Modes : SetCommitmentMode(m)
    \/ \E ok \in BOOLEAN : ComputeCommitment(ok)

SpecTouch == InitShortKey /\ [][NextTouch]_vars

-----------------------------------------------------------------------------
(* The writer alone on an inverted index: consecutive transactions, each changing the
   sender's account and touching log addresses *)

IdxWriter ==
    \/ /\ lastIdInDB(db) = txNum
       /\ txNum < MaxIdxTxNum
       /\ SetTxNum(txNum + 1)
    \/ /\ lastIdInDB(db) < txNum
       /\ AddAccountPrev(KeySeq[1], NextVal("accounts"))
    \/ \E k \in Keys :
          /\ Cardinality(written["logAddrs"]) < MaxTouches
          /\ AddLogAddr(k)

NextIdx == IdxWriter \/ Maintenance

SpecIdx == InitKeepNothing /\ [][NextIdx]_vars

\* a writer that touches one log address, with a Prune of the largest limit only
ScanWriter ==
    \/ /\ lastIdInDB(db) = txNum
       /\ txNum < MaxIdxTxNum
       /\ SetTxNum(txNum + 1)
    \/ /\ lastIdInDB(db) < txNum
       /\ AddAccountPrev(KeySeq[1], NextVal("accounts"))
    \/ /\ Cardinality(written["logAddrs"]) < MaxTouches
       /\ AddLogAddr(KeySeq[1])

NextScan ==
    \/ ScanWriter
    \/ BuildFiles
    \/ mergeLoopStep(TRUE)
    \/ Prune(MaxLimit)

SpecScan == InitKeepNothing /\ [][NextScan]_vars

-----------------------------------------------------------------------------
(* The writer alone with a Prune whose limit and deleted rows are kept *)

\* a prune that hands every component twice the limit
limitDoubled(c, limit) == 2 * limit

\* a prune that hands every component one less than the limit
limitLessOne(c, limit) == limit - 1

\* AggregatorV3.prune, lines 694-714: the limit handed to component c is the caller's
limitOf(c, limit) == limit

\* the rows a step deletes from the MDB, per component
RowsDeleted(before, after) == [c \in Comps |-> Cardinality(before[c] \ after[c])]

\* AggregatorV3.Prune, lines 682-716: the same call, whether it deletes rows or not
PruneBudget(limit) ==
    /\ wpc.pc = "idle"
    /\ db' = [c \in Comps |-> pruneOf(db[c], 0, pruneTo, limitOf(c, limit))]
    /\ call' = [fn |-> "Prune", limit |-> limit, deleted |-> RowsDeleted(db, db'),
                after |-> IF lastOp = "prune" THEN <<[limit |-> call.limit, deleted |-> call.deleted]>>
                                              ELSE <<>>]
    /\ lastOp' = "prune"
    /\ UNCHANGED <<cfgVars, ctxDone, locality, orphans, loader, commitment, touchVars, txNum, maxTxNum, latest,
                   written, files, closed, guardVars, wpc, build, merge, optIdx, warm, ctxs>>

NextBudget ==
    \/ ScanWriter
    \/ BuildFiles
    \/ \E limit \in 1..MaxLimit : PruneBudget(limit)

SpecBudget == InitKeepNothing /\ [][NextBudget]_vars

-----------------------------------------------------------------------------
(* The locality index of logAddrs (state/locality_index.go is not in src/;   *)
(* TestLocality of state/locality_index_test.go drives it)                  *)

MaxBigFiles == 3   \* files of the biggest span the index of logAddrs holds
MaxItem     == 2   \* largest item index read from the bitmaps
MaxBit      == 4   \* largest file position a search starts from

\* a file of the biggest span is frozen: only such files are covered
frozenAny(f) == TRUE
frozen(f) == f.endTxNum - f.startTxNum = MaxSpan

\* BuildMissedIndices: toStep is the end of the last whole biggest-span range
localityUpTo(fsc) == (endTxNumMinimax(fsc) \div MaxSpan) * MaxSpan

\* the files iterateKeysLocality walks
localityFiles(fsc) == {f \in fsc : frozen(f) /\ f.endTxNum <= localityUpTo(fsc)}

\* the bit of a file: its position among the ranges of the biggest span
bitOf(f) == f.startTxNum \div MaxSpan

\* iterateKeysLocality: the keys of the covered files in ascending order, each with the
\* positions of the files that hold it
RECURSIVE iterateKeysLocality(_, _)
iterateKeysLocality(fs, i) ==
    IF i > Len(KeySeq) THEN <<>>
    ELSE LET hits == {bitOf(f) : f \in {g \in fs : \E r \in g.rows : r.key = KeySeq[i]}}
         IN (IF hits = {} THEN <<>> ELSE << <<KeySeq[i], hits>> >>) \o iterateKeysLocality(fs, i + 1)

\* LocalityIndex.buildFiles: one bitmap per key, in the order of the keys
localityBuild(fsc) ==
    LET its == iterateKeysLocality(localityFiles(fsc), 1)
    IN [keys |-> [j \in 1..Len(its) |-> its[j][1]], bm |-> [j \in 1..Len(its) |-> its[j][2]]]

\* LocalityIndex.BuildMissedIndices(ctx, ii)
BuildMissedIndices ==
    /\ locality' = localityBuild(files["logAddrs"])
    /\ lastOp' = "BuildMissedIndices"
    /\ call' = NoCall
    /\ UNCHANGED <<cfgVars, ctxDone, orphans, loader, commitment, touchVars, txNum, maxTxNum,
                   dataVars, files, closed, guardVars, wpc, build, merge, optIdx, warm, ctxs>>

\* bm.At(item): the set bits of one item in ascending order, an error beyond the stored keys
bmAt(bm, item) ==
    IF item >= Len(bm) THEN [fn |-> "At", item |-> item, res |-> <<>>, err |-> TRUE]
    ELSE [fn |-> "At", item |-> item, res |-> SortAsc(bm[item + 1]), err |-> FALSE]

\* the first set bit of a bitmap from a position on, -1 when there is none
firstFrom(bits, after) ==
    LET rest == SortAsc({b \in bits : b >= after}) IN IF rest = <<>> THEN -1 ELSE rest[1]

\* bm.First2At(item, after): the first two set bits at or after a position
First2At(bm, item, after) ==
    LET fst == firstFrom(bm[item + 1], after)
        snd == IF fst < 0 THEN -1 ELSE firstFrom(bm[item + 1], fst + 1)
    IN [fn |-> "First2At", item |-> item, after |-> after,
        fst |-> IF fst < 0 THEN 0 ELSE fst, snd |-> IF snd < 0 THEN 0 ELSE snd,
        ok1 |-> fst >= 0, ok2 |-> snd >= 0]

LocalityRead ==
    /\ lastOp = "BuildMissedIndices" \/ lastOp = "read"
    /\ \/ \E item \in 0..MaxItem : call' = bmAt(locality.bm, item)
       \/ \E item \in 0..MaxItem, after \in 0..MaxBit :
            /\ item < Len(locality.bm)
            /\ call' = First2At(locality.bm, item, after)
    /\ lastOp' = "read"
    /\ UNCHANGED <<cfgVars, ctxDone, locality, orphans, loader, commitment, touchVars, txNum, maxTxNum,
                   dataVars, files, closed, guardVars, wpc, build, merge, optIdx, warm, ctxs>>

\* the postings of one file of logAddrs: every key of ks is touched once, at the
\* first txNum of the file
Postings(from, ks) == {Row(k, from, "") : k \in ks}

\* the files of logAddrs after merging: n files of the biggest span from 0 on, then
\* at most one younger file of one step
MergedLogAddrs ==
    {bigs \cup small :
        bigs \in UNION {{ {File((j - 1) * MaxSpan, j * MaxSpan, Postings((j - 1) * MaxSpan, ks[j])) : j \in 1..n} :
                            ks \in [1..n -> SUBSET Keys]} : n \in 0..MaxBigFiles},
        small \in {{}} \cup UNION {{ {File(n * MaxSpan, n * MaxSpan + aggregationStep, Postings(n * MaxSpan, ks))} : ks \in SUBSET Keys} :
                            n \in 0..MaxBigFiles}}

InitLocality ==
    /\ aggregationStep = 2
    /\ keepInDB = 0
    /\ ctxDone = FALSE
    /\ locality = NoLocality
    /\ call = NoCall
    /\ commitment = {}
    /\ commTree = {}
    /\ mode = "CommitmentModeDirect"
    /\ \E fsc \in MergedLogAddrs :
        /\ \A f \in fsc, g \in fsc : f = g \/ f.endTxNum <= g.startTxNum \/ g.endTxNum <= f.startTxNum
        /\ \A f \in fsc : f.startTxNum = 0 \/ \E g \in fsc : g.endTxNum = f.startTxNum
        /\ files = [NoFiles EXCEPT !["logAddrs"] = fsc]
    /\ txNum = endTxNumMinimax(files["logAddrs"])
    /\ maxTxNum = 0
    /\ db = [c \in Comps |-> {}]
    /\ latest = [c \in HistComps |-> [k \in Keys |-> Nil]]
    /\ written = [c \in Comps |-> UNION {f.rows : f \in files[c]}]
    /\ closed = {}
    /\ orphans = {}
    /\ loader = NoUnwind
    /\ working = FALSE
    /\ workingMerge = FALSE
    /\ workingOptionalIndices = FALSE
    /\ warmupWorking = FALSE
    /\ wpc = Idle
    /\ build = <<>>
    /\ merge = <<>>
    /\ optIdx = 0
    /\ warm = 0
    /\ ctxs = <<>>
    /\ lastOp = "init"

NextLocality == BuildMissedIndices \/ LocalityRead

SpecLocality == InitLocality /\ [][NextLocality]_vars

-----------------------------------------------------------------------------
(* Properties of the live files *)

Aligned(f) ==
    /\ f.startTxNum % aggregationStep = 0
    /\ f.endTxNum % aggregationStep = 0
    /\ f.endTxNum > f.startTxNum

Disjoint(fsc) ==
    \A f \in fsc, g \in fsc :
        f # g => (f.endTxNum <= g.startTxNum \/ g.endTxNum <= f.startTxNum)

Covers(fsc, n) ==
    \A t \in 0..(n - 1) : \E f \in fsc : f.startTxNum <= t /\ t < f.endTxNum

\* C5: in every reachable state the live files of each component are pairwise disjoint,
\* every file is step-aligned with end > start, and together they cover [0, maxTxNum)
FilesPartition ==
    \A c \in Comps :
        /\ Disjoint(files[c])
        /\ \A f \in files[c] : Aligned(f)
        /\ Covers(files[c], maxTxNum)

-----------------------------------------------------------------------------
(* Properties of maxTxNum *)

Integrating == \E j \in 1..Len(build) : build[j].pc = "integrate"

\* C6: whenever no integrateFiles call is in progress, maxTxNum is the minimum of
\* endTxNumMinimax over the seven components; at every other instant it is not greater
MaxTxNumIsMinimax ==
    /\ ~Integrating => maxTxNum = recalcMaxTxNum(files)
    /\ maxTxNum <= recalcMaxTxNum(files)

\* integrateFiles has integrated the seven files of a step and not yet recalculated
MaxTxNumBehind ==
    /\ Integrating
    /\ maxTxNum < recalcMaxTxNum(files)

-----------------------------------------------------------------------------
(* Properties of the background goroutines *)

Building == \E j \in 1..Len(build) : build[j].pc \in {"build", "integrate"}
InMergeLoop == \E j \in 1..Len(merge) : merge[j].pc \in {"find", "merge", "integrate", "delete"}

\* C7 as stated: no build goroutine is running while a merge goroutine is inside MergeLoop
OneBackgroundTask == ~(Building /\ InMergeLoop)

\* C7: at most one build goroutine and at most one merge goroutine at any instant
OneTaskPerCategory == Len(build) <= 1 /\ Len(merge) <= 1

\* a build goroutine integrates step files while a merge goroutine integrates merged files
BuildDuringMerge ==
    /\ \E j \in 1..Len(build) : build[j].pc = "integrate"
    /\ \E j \in 1..Len(merge) : merge[j].pc = "integrate"

\* C8: each of the four guards has at most one holder at a time
OneHolderPerGuard ==
    /\ Len(build) <= 1
    /\ Len(merge) <= 1
    /\ optIdx <= 1
    /\ warm <= 1

-----------------------------------------------------------------------------
(* Properties of read contexts *)

Complete(ctx) == ctx.i = Len(CompSeq)

\* C1: no context holds the file set after an integrateFiles for some components and the
\* file set before it for others
NoPartialVisibility ==
    \A j \in 1..Len(ctxs) :
        Complete(ctxs[j]) =>
            \A c1 \in Comps, c2 \in Comps :
                endTxNumMinimax(ctxs[j].files[c1]) = endTxNumMinimax(ctxs[j].files[c2])

\* C9: no open read context holds a file that mergeLoopStep has deleted or closed
NoContextHoldsClosedFile == Taken \cap closed = {}

-----------------------------------------------------------------------------
(* Properties of the reads *)

TsRange == 0..(MaxDataTxNum + 1)

\* the previous value recorded at the first change of k at or after ts among rows
FirstChange(rows, k, ts) ==
    LET C == {r \in rows : r.key = k /\ r.txNum >= ts}
    IN  IF C = {} THEN NotFound
        ELSE Found((CHOOSE r \in C : \A x \in C : r.txNum <= x.txNum).prev)

InFiles(c) == UNION {f.rows : f \in files[c]}

\* C2 as stated: GetNoState(key, ts) finds the first change of the key at or after ts
AsOfReadFindsEveryChange ==
    \A k \in Keys, ts \in TsRange :
        ReadAccountDataNoState(k, ts) = FirstChange(written["accounts"], k, ts)

\* C2: GetNoState(key, ts) finds the first change of the key at or after ts among the
\* changes the files hold (all changes below maxTxNum), found=false otherwise;
\* GetNoStateWithRecent finds the first change at or after ts over files and MDB
AsOfReadFindsBuiltChanges ==
    \A k \in Keys, ts \in TsRange :
        /\ ReadAccountDataNoState(k, ts) =
              FirstChange(collate(written["accounts"], 0, maxTxNum), k, ts)
        /\ ReadAccountDataNoStateWithRecent(k, ts) = FirstChange(written["accounts"], k, ts)

\* a key has one change in the files only (pruned from MDB) and a later one in MDB only
ChangesInFilesAndInDB ==
    \E k \in Keys, r1 \in written["accounts"], r2 \in written["accounts"] :
        /\ r1.key = k /\ r2.key = k
        /\ r1 \in InFiles("accounts") /\ r1 \notin db["accounts"]
        /\ r2 \notin InFiles("accounts") /\ r2 \in db["accounts"]
        /\ ReadAccountDataNoState(k, r1.txNum).ok
        /\ ~ReadAccountDataNoState(k, r2.txNum).ok
        /\ ReadAccountDataNoStateWithRecent(k, r2.txNum).ok

ScenarioA ==
    /\ written["accounts"] = {Row("0xAA", 1, Nil), Row("0xAA", 5, "v1"), Row("0xAA", 9, "v2")}
    /\ latest["accounts"]["0xAA"] = "v3"

Get(k, ts) == ReadAccountDataNoStateWithRecent(k, ts)

\* C3 as stated: the history reads of scenario A
ScenarioAReadsAsStated ==
    ScenarioA =>
        /\ Get("0xAA", 0) = Found("v1")
        /\ Get("0xAA", 1) = Found("v1")
        /\ Get("0xAA", 5) = Found("v2")
        /\ Get("0xAA", 8) = Found("v2")
        /\ Get("0xAA", 9) = Found("v3")
        /\ Get("0xAA", 10) = NotFound
        /\ latest["accounts"]["0xAA"] = "v3"

\* C3: after the three changes of scenario A the history reads over files and MDB are
\* Get(0) = (nil, true), Get(1) = (nil, true), Get(5) = (v1, true), Get(8) = (v2, true),
\* Get(9) = (v2, true), Get(10) = (nil, false), the last falling back to the latest v3
ScenarioAReads ==
    ScenarioA =>
        /\ Get("0xAA", 0) = Found(Nil)
        /\ Get("0xAA", 1) = Found(Nil)
        /\ Get("0xAA", 5) = Found("v1")
        /\ Get("0xAA", 8) = Found("v2")
        /\ Get("0xAA", 9) = Found("v2")
        /\ Get("0xAA", 10) = NotFound
        /\ latest["accounts"]["0xAA"] = "v3"

\* scenario A with its first steps built into files and pruned from MDB
ScenarioABuilt ==
    /\ ScenarioA
    /\ Row("0xAA", 1, Nil) \in InFiles("accounts")
    /\ Row("0xAA", 1, Nil) \notin db["accounts"]
    /\ Row("0xAA", 9, "v2") \in db["accounts"]

IdxRange == 0..(MaxIdxTxNum + 1)

Touched(k, a, b) == {r.txNum : r \in {x \in written["logAddrs"] : x.key = k /\ a <= x.txNum /\ x.txNum < b}}

\* C4: the ascending scan IterateRange(k, a, b, asc, -1) yields exactly the txNums of
\* [a, b) at which k was touched, increasing and each once, wherever the touches are
RangeScanComplete ==
    \A k \in Keys, a \in IdxRange, b \in IdxRange :
        a <= b => LogAddrIterator(k, a, b, TRUE, -1) = SortAsc(Touched(k, a, b))

\* a key has a touch in a file and in MDB (built, not pruned) and a later one in MDB only,
\* and the scan over both gives each once
TouchesOnBothSides ==
    \E k \in Keys, r1 \in written["logAddrs"], r2 \in written["logAddrs"] :
        /\ r1.key = k /\ r2.key = k
        /\ r1 \in InFiles("logAddrs") /\ r1 \in db["logAddrs"]
        /\ r2 \notin InFiles("logAddrs") /\ r2 \in db["logAddrs"]
        /\ LogAddrIterator(k, 0, r2.txNum + 1, TRUE, -1) = <<r1.txNum, r2.txNum>>

\* the rows a step takes out of MDB
Deleted(c) == db[c] \ db'[c]

\* C11: Prune deletes only rows below the maxTxNum it read at its start, and each of them
\* is in a live file of its component; rows at or above that maxTxNum stay
PruneOnlyBuiltRows ==
    [][wpc.pc = "prune" /\ wpc'.pc = "idle" =>
          \A c \in Comps : \A r \in Deleted(c) :
              /\ r.txNum < wpc.step
              /\ r \in InFiles(c)]_vars

\* a Prune has taken a built row out of MDB while a goroutine is at work, and a row at or
\* above maxTxNum is still there
PrunedBesideBackground ==
    /\ lastOp = "prune"
    /\ build # <<>> \/ merge # <<>>
    /\ \E r \in written["accounts"] \ db["accounts"] : r \in InFiles("accounts")
    /\ \E r \in db["accounts"] : r.txNum >= maxTxNum

\* a step on which a.buildFiles of a build goroutine fails
BuildFails ==
    \E j \in 1..Len(build) :
        /\ build[j].pc = "build"
        /\ Len(build') = Len(build)
        /\ build'[j].pc = "mergeCheck"

\* C12: when a.buildFiles fails at some component, the files built for the earlier
\* components are closed when the build returns, and no MDB row is changed
FailedBuildClosesItsFiles ==
    [][BuildFails => db' = db /\ orphans' \subseteq closed']_vars

\* a step on which a.mergeFiles of merge goroutine j fails
MergeFailsAt(j) ==
    /\ j \in 1..Len(merge)
    /\ merge[j].pc = "merge"
    /\ Len(merge') = Len(merge)
    /\ merge'[j].pc = "opt"

\* C13: a failed a.buildFiles or a.mergeFiles leaves the live files of every component and
\* maxTxNum as they were, and the files of the range the merge had selected are all still
\* live, so that the retry selects the same step or range
FailedAttemptKeepsLiveFiles ==
    [][(BuildFails \/ \E j \in 1..Len(merge) : MergeFailsAt(j)) =>
          /\ files' = files
          /\ maxTxNum' = maxTxNum
          /\ \A j \in 1..Len(merge) :
                MergeFailsAt(j) => staticFilesInRange(files', merge[j].r) = merge[j].outs]_vars

\* a.buildFiles has failed after building files, a.mergeFiles has failed on a range, and
\* the live files still hold the files of that range
BuildAndMergeFailed ==
    /\ orphans # {}
    /\ \E j \in 1..Len(merge) :
          /\ merge[j].pc = "opt"
          /\ merge[j].in = NoFiles
          /\ RangesAny(merge[j].r)
          /\ staticFilesInRange(files, merge[j].r) = merge[j].outs

\* C14: a run of the build goroutine whose step build failed starts no merge: it neither
\* claims workingMerge nor starts the goroutine of MergeLoop
FailedBuildStartsNoMerge ==
    [][\A j \in 1..Len(build) :
          build[j].err /\ build' = RemoveAt(build, j) =>
              Len(merge') <= Len(merge)]_vars

\* a step of Unwind
Unwinds == lastOp' = "unwind" /\ (loader' # loader \/ db' # db)

\* the keys of component c changed at txUnwindTo or later
ChangedSince(w, c, txUnwindTo) == {r.key : r \in RowsFrom(w[c], txUnwindTo)}

\* one pair per accounts or storage key changed at txUnwindTo or later: the key and the
\* value it had as of txUnwindTo
PairsAsOf(w, txUnwindTo) ==
    {<<PlainKey(c, k), FirstChange(w[c], k, txUnwindTo).v>> :
        c \in {"accounts"}, k \in ChangedSince(w, "accounts", txUnwindTo)}
    \cup {<<PlainKey(c, k), FirstChange(w[c], k, txUnwindTo).v>> :
        c \in {"storage"}, k \in ChangedSince(w, "storage", txUnwindTo)}

\* the plain state of accounts and storage as of txUnwindTo
PlainAsOf(w, plain, c, txUnwindTo) ==
    [k \in Keys |-> IF k \in ChangedSince(w, c, txUnwindTo)
                      THEN FirstChange(w[c], k, txUnwindTo).v ELSE plain[c][k]]

\* C15: Unwind(T) gives its loader exactly one pair (key, value as of T) for every accounts
\* or storage key changed at T or later, and the plain state is again what it was at T
UnwindRestores ==
    [][Unwinds =>
          /\ loader'.pairs = PairsAsOf(written, loader'.to)
          /\ \A c \in {"accounts", "storage"} :
                latest'[c] = PlainAsOf(written, latest, c, loader'.to)]_vars

\* the state of scenario D before its Unwind
ScenarioD == ScenarioA /\ txNum = ScenarioDTxNum

\* C16 as stated: scenario D, the loader of Unwind(6) receives the one pair (0xAA, v1)
ScenarioDLoadsAsStated ==
    [][ScenarioD /\ Unwinds /\ loader'.to = 6 => loader'.pairs = {<<PlainKey("accounts", "0xAA"), "v1">>}]_vars

\* C16 amended: scenario D, the loader of Unwind(6) receives the one pair (0xAA, v2)
ScenarioDLoads ==
    [][ScenarioD /\ Unwinds /\ loader'.to = 6 => loader'.pairs = {<<PlainKey("accounts", "0xAA"), "v2">>}]_vars

\* scenario D has unwound to 6 after its first steps were built and pruned: the change at
\* txNum 9 is gone, the loader got one pair and 0xAA is v2 again
ScenarioDUnwound ==
    /\ lastOp = "unwind"
    /\ txNum = ScenarioDTxNum
    /\ loader.to = 6
    /\ Cardinality(loader.pairs) = 1
    /\ written["accounts"] = {Row("0xAA", 1, Nil), Row("0xAA", 5, "v1")}
    /\ db["accounts"] = {}
    /\ files["accounts"] # {}
    /\ latest["accounts"]["0xAA"] = "v2"

\* the least number of bytes that hold the uint64 i
MinBytes(i) == 9 - FirstByte(i)

\* C18: the short key of (fileStep, offset) is the two bytes of fileStep and then the
\* offset in the least number of bytes, and shortenedKey gives (fileStep, offset) back
ShortKeyRoundTrip ==
    call.fn = "shortenedKey" =>
        /\ Len(call.shortKey) = 2 + MinBytes(call.offset)
        /\ MinBytes(call.offset) \in 1..8
        /\ SubSeq(call.shortKey, 1, 2) = call.fileStep
        /\ call.ret = <<call.fileStep, call.offset>>

\* the record of the format: txNum, blockNum and the length in 8, 8 and 2 bytes big
\* endian, then the bytes of the trie state
IsStateRecord(buf, cs) ==
    /\ RLen(buf) = 18 + RLen(cs.trieState)
    /\ Expand(RTake(buf, 8)) = cs.txNum
    /\ Expand(RTake(RDrop(buf, 8), 8)) = cs.blockNum
    /\ Uint16(Expand(RTake(RDrop(buf, 16), 2))) = RLen(cs.trieState)
    /\ RDrop(buf, 18) = cs.trieState

DecodesTo(ret, cs) ==
    /\ ~ret.err
    /\ ret.txNum = cs.txNum
    /\ ret.blockNum = cs.blockNum
    /\ ret.trieState = cs.trieState

\* C19 as stated: for every commitmentState, Encode gives the record of the format and
\* Decode of it gives the same txNum, blockNum and trieState
StateRoundTripAlways ==
    call.fn = "Decode" => IsStateRecord(call.buf, call.cs) /\ DecodesTo(call.ret, call.cs)

\* C19 amended: the same for every commitmentState whose trieState is shorter than 65536 bytes
StateRoundTrip ==
    call.fn = "Decode" /\ RLen(call.cs.trieState) < Uint16Range =>
        IsStateRecord(call.buf, call.cs) /\ DecodesTo(call.ret, call.cs)

\* a state with the longest trieState of the format has been encoded and decoded
LongestStateDecoded ==
    /\ call.fn = "Decode"
    /\ RLen(call.cs.trieState) = Uint16Range - 1
    /\ DecodesTo(call.ret, call.cs)

\* the key a short key stands for by the format: the file of list whose last step is its
\* first two bytes, and the key at the offset of its other bytes
StandsFor(list, shortKey) ==
    LET at == {n \in 1..Len(list) : PutUint16(list[n].endTxNum \div aggregationStep) = SubSeq(shortKey, 1, 2)} IN
    IF at = {} THEN <<>>
    ELSE KeyAt(list[CHOOSE n \in at : TRUE], decodeU64(SubSeq(shortKey, 3, Len(shortKey))))

\* reference n of the written keys is a short key into the merged file of the same long
\* key as the reference it replaced
Rewritten(list, merged, before, after) ==
    \A n \in 1..Len(before) :
        /\ Len(after[n]) # KeyLen(merged[1].typAS)
        /\ StandsFor(merged, after[n]) =
              IF Len(before[n]) = KeyLen(merged[1].typAS) THEN before[n] ELSE StandsFor(list, before[n])

\* C17: every account or storage key of the record commitmentValTransform returns is a
\* short key that points into the merged file and stands there for the same long key as
\* the reference it replaced
TransformedKeysAreMergedRefs ==
    call.fn = "commitmentValTransform" =>
        /\ Len(call.ret.accounts) = Len(call.val.accounts)
        /\ Len(call.ret.storage) = Len(call.val.storage)
        /\ Rewritten(call.files.accounts, call.merged.accounts, call.val.accounts, call.ret.accounts)
        /\ Rewritten(call.files.storage, call.merged.storage, call.val.storage, call.ret.storage)

\* the checkpoints stored at the step the scan of SeekCommitment starts at or at a higher
\* one, each with a txNum of the step of its key
ScannedCheckpoints(aggStep, sinceTx) ==
    {r \in commitment :
        /\ Uint16(r.step) >= (sinceTx \div aggStep - 1) % Uint16Range
        /\ FromU64(Expand(RTake(r.v, 8))) \div aggStep = Uint16(r.step)}

\* C20: SeekCommitment sets the trie state from the highest stored checkpoint of its scan
\* and returns the txNum of that checkpoint; with no such checkpoint it returns 0, nil
SeekFindsHighestCheckpoint ==
    call.fn = "SeekCommitment" =>
        LET scanned == ScannedCheckpoints(call.aggStep, call.sinceTx) IN
        IF scanned = {} THEN call.ret = NoState
        ELSE LET top == CHOOSE r \in scanned : \A q \in scanned : Uint16(q.step) <= Uint16(r.step) IN
             /\ call.ret.set
             /\ ~call.ret.err
             /\ call.ret.txNum = Expand(RTake(top.v, 8))
             /\ call.ret.trieState = RDrop(top.v, 18)

\* C21: after ComputeCommitment returns, with a root hash or with an error and in every
\* mode, no key is touched, and a ComputeCommitment that follows another with no touch
\* between sees no touched key and returns the current root hash and no branch update
ComputeCommitmentClears ==
    call.fn = "ComputeCommitment" =>
        /\ commTree = {}
        /\ call.again =>
              /\ call.touched = {}
              /\ call.ret.rootHash = "RootHash"
              /\ call.ret.branchNodeUpdates = "nil"

\* ComputeCommitment has failed on touched keys, and the next one saw none
ClearedAfterError ==
    /\ call.fn = "ComputeCommitment"
    /\ call.afterError
    /\ call.touched = {}
    /\ ~call.ret.err

\* the item of address a
ItemOf(a) == CHOOSE item \in commTree : item.hashedKey = hashAndNibblizeKey(<<a>>)

\* the touches of address a since the tree was cleared are an account touch of a value
\* that is not empty and a code touch, in this or the other order
AccountAndCode(a, acc, code) ==
    /\ Touches[a] # Untold
    /\ Len(Touches[a]) = 2
    /\ Touches[a][acc].fn = "TouchPlainKeyAccount"
    /\ Len(Touches[a][acc].val) # 0
    /\ Touches[a][code].fn = "TouchPlainKeyCode"

MergeLoopTerminates ==
    /\ (wpc.pc = "MergeLoop") ~> (wpc.pc = "idle")
    /\ [](lastOp = "MergeLoopNil" =>
            ~RangesAny(findMergeRange(files, maxTxNum, aggregationStep, MaxSpan)))

\* MergeLoop has returned nil and the live files hold a file of the largest span, the
\* result of a merge of merged files
MergeLoopMergedTwice ==
    /\ lastOp = "MergeLoopNil"
    /\ \E f \in files["accounts"] : f.endTxNum - f.startTxNum = MaxSpan

\* the spans of the merged files: 2S, 4S, ... up to maxSpan = S * StepsInBiggestFile
MergedSpans ==
    {span \in 1..(aggregationStep * StepsInBiggestFile) : \E i \in 1..6 : span = aggregationStep * (2 ^ i)}

GuardsReleased ==
    /\ working ~> ~working
    /\ workingMerge ~> ~workingMerge
    /\ workingOptionalIndices ~> ~workingOptionalIndices
    /\ warmupWorking ~> ~warmupWorking
    /\ [](working => Len(build) > 0)
    /\ [](workingMerge => Len(merge) > 0)
    /\ [](workingOptionalIndices => optIdx > 0)
    /\ [](warmupWorking => warm > 0)

\* three guards are held at once, workingOptionalIndices by two goroutines, after every
\* guard has been released once
GuardsHeldTogether ==
    /\ workingMerge /\ workingOptionalIndices /\ warmupWorking /\ ~working
    /\ optIdx > 1
    /\ maxTxNum > 0


\* C26: after Close no background goroutine integrates a file into the live set
NoIntegrationAfterClose == [][ctxDone => files' = files]_vars


\* C27: MakeSteps returns the error with the three counts exactly when the numbers of
\* steps of accounts, storage and code differ; otherwise step number i combines step
\* number i of the three, which cover the same range of txNums
MakeStepsAligned ==
    call.fn = "MakeSteps" =>
        /\ call.err <=> Cardinality({call.counts[i] : i \in 1..3}) > 1
        /\ call.err => call.steps = <<>>
        /\ ~call.err =>
              /\ Len(call.steps) = call.counts[1]
              /\ \A i \in 1..Len(call.steps) :
                    /\ call.steps[i].accounts = call.steps[i].storage
                    /\ call.steps[i].storage = call.steps[i].code


\* the rows of all components
RECURSIVE SumOver(_, _)
SumOver(f, S) == IF S = {} THEN 0 ELSE LET c == CHOOSE c \in S : TRUE IN f[c] + SumOver(f, S \ {c})

\* the step is a call of Prune: the one step that keeps txNum and leaves "prune" in lastOp
Prunes == lastOp' = "prune" /\ call'.fn = "Prune" /\ txNum' = txNum

\* C28 as stated: one call Prune(limit) deletes at most limit rows in total
PruneWithinLimitInTotal == [][Prunes => SumOver(RowsDeleted(db, db'), Comps) <= call'.limit]_vars

\* C28: one call Prune(limit) deletes at most limit rows of each component, seven times
\* limit in total, and only rows below maxTxNum
PruneWithinLimit ==
    [][Prunes =>
        /\ \A c \in Comps : RowsDeleted(db, db')[c] <= call'.limit
        /\ SumOver(RowsDeleted(db, db'), Comps) <= Cardinality(Comps) * call'.limit
        /\ \A c \in Comps : \A r \in db[c] \ db'[c] : r.txNum < maxTxNum
        /\ call'.deleted = RowsDeleted(db, db')]_vars

\* a Prune has deleted limit rows of accounts and limit rows of logAddrs
PrunedLimitTwice ==
    /\ lastOp = "prune" /\ call.fn = "Prune"
    /\ call.deleted["accounts"] = call.limit
    /\ call.deleted["logAddrs"] = call.limit

\* the step is a Prune that follows a Prune with the same limit, nothing in between
PrunesAgain == Prunes /\ lastOp = "prune" /\ call.fn = "Prune" /\ call.limit = call'.limit

TouchedDown(k, fromTs, toTs) ==
    {r.txNum : r \in {x \in written["logAddrs"] :
        x.key = k /\ (fromTs < 0 \/ x.txNum <= fromTs) /\ x.txNum > toTs}}

\* the txNums t at which k was touched with toTs <= t < fromTs
TouchedBelow(k, fromTs, toTs) ==
    {r.txNum : r \in {x \in written["logAddrs"] :
        x.key = k /\ (fromTs < 0 \/ x.txNum < fromTs) /\ (toTs < 0 \/ toTs <= x.txNum)}}

\* the bounds and the limits of the scans that are checked
ScanBounds == IdxRange \cup {-1}
ScanLimits == {-1, 0, 1, 2}
DescScans == {w \in ScanBounds \X ScanBounds : w[1] < 0 \/ w[1] > w[2]}

\* the scenario of the spec: touches at 3, 7, 11 in a file, at 19 in the MDB
ScenarioScan(limit) ==
    IterateRange({File(0, 16, {Row(KeySeq[1], t, "") : t \in {3, 7, 11}})},
                 {Row(KeySeq[1], 19, "")}, KeySeq[1], 15, 5, FALSE, limit)

\* C30 as stated: the descending scan yields the touched txNums t with
\* toTs <= t < fromTs, decreasing, cut to the first limit of them
DescScanAsStated ==
    \A k \in Keys, w \in DescScans, limit \in ScanLimits :
        LogAddrIterator(k, w[1], w[2], FALSE, limit)
            = Take(Reverse(SortAsc(TouchedBelow(k, w[1], w[2]))), limit)

\* C30: the descending scan IterateRange(k, fromTs, toTs, desc, limit) yields the touched
\* txNums t with toTs < t <= fromTs, decreasing, cut to the first limit of them (limit < 0
\* all, limit = 0 none, a bound of -1 no bound); with touches at 3, 7, 11, 19 the scan
\* from 15 to 5 with limit 1 yields 11
DescScanComplete ==
    /\ \A k \in Keys, w \in DescScans, limit \in ScanLimits :
          LogAddrIterator(k, w[1], w[2], FALSE, limit)
              = Take(Reverse(SortAsc(TouchedDown(k, w[1], w[2]))), limit)
    /\ ScenarioScan(1) = <<11>>
    /\ ScenarioScan(-1) = <<11, 7>>
    /\ ScenarioScan(0) = <<>>

\* a key touched in a file and later in the MDB only: the scan down from the later touch
\* yields it first, and alone with limit 1
ScannedDownFromTouch ==
    \E k \in Keys, r1 \in written["logAddrs"], r2 \in written["logAddrs"] :
        /\ r1.key = k /\ r2.key = k /\ r1.txNum < r2.txNum
        /\ r1 \in InFiles("logAddrs")
        /\ r2 \notin InFiles("logAddrs") /\ r2 \in db["logAddrs"]
        /\ LogAddrIterator(k, r2.txNum, -1, FALSE, -1) = <<r2.txNum, r1.txNum>>
        /\ LogAddrIterator(k, r2.txNum, -1, FALSE, 1) = <<r2.txNum>>
        /\ LogAddrIterator(k, r2.txNum, r1.txNum, FALSE, -1) = <<r2.txNum>>

AllReads ==
    [k \in Keys |->
        [asOf |-> [ts \in TsRange |-> <<ReadAccountDataNoState(k, ts),
                                        ReadAccountDataNoStateWithRecent(k, ts)>>],
         scan |-> [w \in {x \in TsRange \X TsRange : x[1] <= x[2]} |->
                      <<LogAddrIterator(k, w[1], w[2], TRUE, -1),
                        LogAddrIterator(k, w[2], w[1], FALSE, -1)>>],
         changed |-> [w \in {x \in TsRange \X TsRange : x[1] <= x[2]} |->
                      AccountHistoryIterateChanged(w[1], w[2])]]]

\* C10: a mergeLoopStep does not change the result of any read
MergeKeepsReads ==
    [][lastOp' \in {"merge", "mergeError"} => AllReads' = AllReads]_vars


\* the file of the biggest span at position i of logAddrs, if it is live
BigFileAt(i) == {f \in files["logAddrs"] : frozen(f) /\ f.startTxNum = i * MaxSpan}
BigPositions == {i \in 0..(MaxBigFiles + 1) : BigFileAt(i) # {}}
BitmapOf(k) ==
    UNION {locality.bm[j] : j \in {x \in 1..Len(locality.keys) : locality.keys[x] = k}}
LocalityBuilt == lastOp \in {"BuildMissedIndices", "read"}

RangesOf(fsc) == {<<f.startTxNum, f.endTxNum>> : f \in fsc}

\* the first BuildFiles of scenario B
ScenarioBBuild ==
    /\ ScenarioA
    /\ txNum = ScenarioDTxNum
    /\ files["accounts"] = {}
    /\ lastOp' = "build"

\* C32 as stated: the BuildFiles of scenario B leaves the step files [0,4), [4,8) and [8,12)
ScenarioBFilesAsStated ==
    [][ScenarioBBuild => RangesOf(files'["accounts"]) = {<<0, 4>>, <<4, 8>>, <<8, 12>>}]_vars

\* C32: the BuildFiles of scenario B leaves the step files [0,4) and [4,8) of accounts;
\* the change at txNum 9 and everything later is in MDB only
ScenarioBFiles ==
    [][ScenarioBBuild =>
        /\ RangesOf(files'["accounts"]) = {<<0, 4>>, <<4, 8>>}
        /\ \A r \in written["accounts"] : r.txNum >= 8 => r \in db'["accounts"] /\ r \notin InFiles("accounts")']_vars

\* scenario B after its BuildFiles
ScenarioBBuilt ==
    /\ ScenarioA
    /\ txNum = ScenarioDTxNum
    /\ lastOp = "build"
    /\ RangesOf(files["accounts"]) = {<<0, 4>>, <<4, 8>>}
    /\ Row("0xAA", 9, "v2") \in db["accounts"]


\* the files of a merge that hold key k, and the value of the one with the greatest endTxNum
FilesWith(fs, k) == {j \in 1..Len(fs) : \E n \in 1..Len(fs[j].words) : fs[j].words[n].key = k}
WinnerOf(fs, k) ==
    LET j == CHOOSE x \in FilesWith(fs, k) : \A y \in FilesWith(fs, k) : fs[y].endTxNum <= fs[x].endTxNum
    IN fs[j].words[CHOOSE n \in 1..Len(fs[j].words) : fs[j].words[n].key = k].val

\* C33: the merged values file holds every key at most once, in ascending order, with
\* the value of the input file of the greatest endTxNum that holds the key; a key is
\* left out exactly when that value is empty and the merged range starts at txNum 0
MergedValuesAreNewest ==
    call.fn = "mergeFiles" =>
        LET fs == call.valuesFiles
            out == call.words
        IN /\ \A n \in 1..(Len(out) - 1) : bytesLess(out[n].key, out[n + 1].key)
           /\ \A n \in 1..Len(out) : FilesWith(fs, out[n].key) # {} /\ out[n].val = WinnerOf(fs, out[n].key)
           /\ \A k \in MergeKeys : FilesWith(fs, k) # {} =>
                ((\A n \in 1..Len(out) : out[n].key # k)
                    <=> (WinnerOf(fs, k) = EmptyVal /\ call.valuesStartTxNum = 0))

\* a merge from txNum 0 of three files: one key is deleted in the youngest file and left
\* out, the other is written with the value of the youngest file that holds it; and a
\* merge from a later txNum writes an empty value
MergedThreeValues ==
    /\ call.fn = "mergeFiles"
    /\ Len(call.valuesFiles) = 3
    /\ call.valuesStartTxNum = 0
    /\ FilesWith(call.valuesFiles, <<1>>) = {1, 2, 3}
    /\ FilesWith(call.valuesFiles, <<1, 2>>) = {1, 2}
    /\ WinnerOf(call.valuesFiles, <<1>>) = EmptyVal
    /\ call.valuesFiles[1].words[2].val # call.valuesFiles[2].words[2].val
    /\ Len(call.words) = 1
    /\ call.words[1] = [key |-> <<1, 2>>, val |-> call.valuesFiles[2].words[2].val]


\* C34: when mergeLoopStep returns an error every file of a live file set is still open
LiveFilesOpenAfterMergeError ==
    lastOp = "mergeError" => \A c \in Comps : ~Closed(c, files[c])


\* C35: maxTxNum never decreases, whatever builds, merges and prunes do
MaxTxNumNeverDecreases == [][maxTxNum' >= maxTxNum]_vars

\* maxTxNum has grown twice, the files of the two steps are merged and MDB is pruned
MaxTxNumGrewTwice ==
    /\ maxTxNum = 2 * aggregationStep
    /\ lastOp = "prune"
    /\ \A c \in Comps : \E f \in files[c] : f.endTxNum - f.startTxNum = 2 * aggregationStep


\* C36: once files are built maxTxNum + keepInDB <= txNum + 1: building leaves the last
\* keepInDB txNums to MDB
BuildKeepsSlack ==
    maxTxNum > 0 => maxTxNum + keepInDB <= txNum + 1


\* C37 as stated: after Unwind(txUnwindTo) no component has an MDB row of txUnwindTo or
\* later
UnwindClearsEveryTable ==
    [][Unwinds => \A c \in Comps : RowsFrom(db'[c], loader'.to) = {}]_vars

\* C37: after Unwind(txUnwindTo) the histories of accounts and storage and the four
\* inverted indices have no MDB row of txUnwindTo or later, their earlier rows are kept,
\* and the history of code is as it was
UnwindClearsItsTables ==
    [][Unwinds =>
          /\ \A c \in Comps \ {"code"} :
                /\ RowsFrom(db'[c], loader'.to) = {}
                /\ db'[c] = db[c] \ RowsFrom(db[c], loader'.to)
          /\ db'["code"] = db["code"]]_vars

\* an Unwind has streamed a change of accounts and has left an index row from before
\* txUnwindTo and a code row from after it
UnwoundButCode ==
    /\ lastOp = "unwind"
    /\ loader.pairs # {}
    /\ \E c \in Comps \ HistComps : db[c] # {}
    /\ \A c \in Comps \ {"code"} : RowsFrom(db[c], loader.to) = {}
    /\ RowsFrom(db["code"], loader.to) # {}


\* C38: the step a build goroutine builds and integrates is the one that follows the
\* steps already integrated, maxTxNum / aggregationStep, so that no step is skipped or
\* integrated twice, and it is built only when the accounts keys table holds a txNum at or
\* after the end of the step
StepsBuiltInOrder ==
    \A j \in 1..Len(build) :
        build[j].pc \in {"build", "integrate"} =>
            /\ build[j].step * aggregationStep = maxTxNum
            /\ build[j].pc = "build" => lastIdInDB(db) >= (build[j].step + 1) * aggregationStep


\* C39: CanPrune is true whenever a component has an MDB row below maxTxNum
CanPruneSeesOldRows ==
    (\E c \in Comps : \E r \in db[c] : r.txNum < maxTxNum) => CanPrune(db, maxTxNum)


\* the trieLen field of a buffer of at least 18 bytes
TrieLenField(arr) == Uint16(Expand(RTake(RDrop(arr, 16), 2)))

\* the buffer is shorter than the 18-byte header, or its trieLen field is larger than the
\* number of bytes that follow the header
TooShort(arr, n) == IF n < 18 THEN TRUE ELSE TrieLenField(arr) > n - 18

\* C40: Decode returns an error, and reads no byte outside the buffer, for every buffer that
\* is shorter than the 18-byte header or whose trieLen field is larger than the number of
\* bytes that follow the header
DecodeRejectsShortBuffers ==
    call.fn = "DecodeBuffer" /\ TooShort(call.arr, call.len) =>
        call.ret.err /\ ~call.ret.panic /\ ~call.ret.outside

====
